---- MODULE Spec2Model ----
(***************************************************************************)
(* LunaWallet: the wallet library LunaLib in its two variants,             *)
(*   desktop  src/luna_lib.py      (full rescan, mempool monitor)          *)
(*   web      src/web/luna_lib.py  (incremental, checkpointed scan)        *)
(* together with the remote ledger both talk to.                           *)
(*                                                                         *)
(* Amounts are integers counted in units of the fixed fee 0.00001 LKC, so  *)
(* 10.0 LKC is 1000000 and the fee is 1.  Time is in seconds.  The block   *)
(* counts of the source (500, 50, 100, 20) are scaled down so that a chain *)
(* of a few blocks spans several batches and exceeds the per-scan cap; the *)
(* code's arithmetic on them is kept as written.                           *)
(***************************************************************************)
EXTENDS Integers, Sequences, FiniteSets, TLC

VARIABLES
    variant,            \* "desktop" or "web": which library is running
    now,                \* time.time()
    chain,              \* the remote ledger: blocks 0 .. Len(chain)-1
    mempool,            \* the remote mempool (a set of Tx)
    is_unlocked,
    wallets,            \* self.wallets: list of wallet dicts
    pending_txs,        \* self.pending_txs: list of PendingEntry
    wallet_password,
    scan_state,         \* self.scan_state: [wallets: address -> checkpoint, last_full_scan]
    last_full_scan,
    watched_tx_hashes,
    mempool_monitoring,
    mempool_watcher_alive, \* a thread started on _mempool_monitor is still in its loop
    wallet_file,        \* wallet_encrypted.dat: [password, wallets]
    pending_file,       \* pending.json
    scan_state_file,    \* scan_state.json
    send,               \* the thread running send_transaction: position and locals
    locking,            \* the thread running lock_wallet: the statement it is at
    auto_scan,          \* self.scanning, the threads in _auto_scanner, a scan in flight
    last                \* outcome of the last library call: name, result, callbacks fired

vars == <<variant, auto_scan, locking, mempool_watcher_alive, now, chain, mempool, is_unlocked, wallets, pending_txs,
          wallet_password, scan_state, last_full_scan, watched_tx_hashes,
          mempool_monitoring, wallet_file, pending_file, scan_state_file,
          send, last>>

-----------------------------------------------------------------------------
(* Bounds of the exploration *)

MaxChain == 4            \* the remote chain grows to at most this many blocks
ShortChain == 3          \* ... and to this many where every operation runs
MaxTime == 7900          \* the clock stops advancing here
MaxSmallSteps == 2       \* short clock steps taken in a row
MaxRewards == 1          \* blocks mined by an owned address
MaxSends == 2            \* transfers of ours the remote node gets to see
MaxFailedFetches == 1    \* block-range fetches that fail within one scan
MaxRecords == 3          \* records a wallet's transaction list grows to
LongChain == 7           \* blocks of a remote chain longer than the loop scans between full scans
MaxLoops == 2            \* threads in _auto_scanner at one time
MaxPending == 2          \* pending entries, where sends of any amount run

(* Program constants *)

scan_batch_size == 2             \* 50 in the source
max_blocks_per_scan == 3         \* 500 in the source
full_scan_interval == 3600
batch_size == 3                  \* desktop scan_blockchain: 500 in the source
small_batch_size == 2            \* desktop small-batch fallback: 100 in the source
recent_block_count == 2          \* 20 in the source
duplicate_check_window == 300
pending_timeout == 3600
full_scan_every == 2      \* 120: every 120th scan of the loop is forced full
FIXED_FEE == 1                   \* 0.00001 LKC
Epoch0 == 4000                   \* the clock at construction (any time past the first hour)

NoneVal == -1                    \* Python's None where a height is expected

Min(a, b) == IF a < b THEN a ELSE b
Max(a, b) == IF a > b THEN a ELSE b

-----------------------------------------------------------------------------
(* Addresses.  A wallet address is "LUN_<hex>_<hex>": it has upper-case     *)
(* letters, so str.lower() changes it.                                      *)

OurAddress == "LUN_a"

Lower(s) == CASE s = "LUN_a" -> "lun_a"
              [] s = "LUN_b" -> "lun_b"
              [] OTHER -> s

(* The wallet file on disk at construction: one wallet, as create_wallet    *)
(* builds it.                                                               *)
NewWallet(address) ==
    [address |-> address, balance |-> 0, pending_send |-> 0, transactions |-> <<>>]

Password == "pw"

(* Transactions other parties hand to the remote node. *)
ExternalTxs ==
    { [hash |-> "abc", from |-> "x", to |-> "LUN_a", amount |-> 5, fee |-> 0,
       timestamp |-> 0],
      [hash |-> "p1",  from |-> "LUN_a", to |-> "y", amount |-> 3, fee |-> 1,
       timestamp |-> 0] }

OtherMiner == "m"
FundingTxs == { t \in ExternalTxs : Lower(t.to) = Lower(OurAddress) }
Miners == {OtherMiner, "LUN_a"}
BlockReward == 2
SmallStep == 200                 \* shorter than duplicate_check_window
BigStep == 3500                  \* SmallStep + BigStep exceeds an hour

GenesisBlock == [index |-> 0, miner |-> "", reward |-> 0, transactions |-> <<>>]

-----------------------------------------------------------------------------
(* RemoteLedgerClient: what the remote answers *)

\* GET range?start=&end= answered in full: the blocks with start <= index <= end
BlocksInRange(start, end) ==
    IF start > end \/ start + 1 > Len(chain) THEN <<>>
    ELSE SubSeq(chain, start + 1, Min(end + 1, Len(chain)))

\* web _get_blocks_range: the range, or [] when the request fails
web_get_blocks_range(start, end, failed) ==
    IF failed THEN <<>> ELSE BlocksInRange(start, end)

\* web _get_current_blockchain_height: index of the latest block, or None
web_get_current_blockchain_height(ok) ==
    IF ok THEN Len(chain) - 1 ELSE NoneVal

\* desktop _get_current_blockchain_height: number of blocks, 0 when every source fails
_get_current_blockchain_height(ok) ==
    IF ok THEN Len(chain) ELSE 0

\* desktop _get_manual_block_count: the count from a fallback endpoint, 0 when all fail
_get_manual_block_count(ok) ==
    IF ok THEN Len(chain) ELSE 0

RECURSIVE _get_blockchain_range_small_batches(_, _, _)
\* desktop: sub-batches of small_batch_size; a failed sub-batch is skipped
_get_blockchain_range_small_batches(batch_start, end_height, down) ==
    IF batch_start > end_height THEN <<>>
    ELSE LET batch_end == Min(batch_start + small_batch_size - 1, end_height)
             got == IF batch_start \in down THEN <<>>
                    ELSE BlocksInRange(batch_start, batch_end)
         IN  got \o _get_blockchain_range_small_batches(
                        batch_start + small_batch_size, end_height, down)

\* desktop: the range endpoint, falling back to small batches when it fails
_get_blockchain_range_via_api(start_height, end_height, down) ==
    IF start_height > end_height THEN <<>>
    ELSE IF down = {} THEN BlocksInRange(start_height, end_height)
    ELSE _get_blockchain_range_small_batches(start_height, end_height, down)

-----------------------------------------------------------------------------
(* ScanEngine: one block against one wallet.  acc = [transactions, known]  *)

reward_hash(block_height, miner) ==
    "reward_" \o ToString(block_height) \o "_" \o miner

RECURSIVE web_process_txs(_, _, _, _, _)
web_process_txs(acc, address, block_height, txs, i) ==
    IF i > Len(txs) THEN acc
    ELSE LET tx == txs[i]
             relevant == (tx.from # "" /\ Lower(tx.from) = Lower(address))
                         \/ (tx.to # "" /\ Lower(tx.to) = Lower(address))
             enhanced_tx == [type |-> "transfer", from |-> tx.from, to |-> tx.to,
                             amount |-> tx.amount, fee |-> tx.fee,
                             block_height |-> block_height, hash |-> tx.hash,
                             status |-> "confirmed"]
             acc2 == IF tx.hash = "" \/ tx.hash \in acc.known THEN acc
                     ELSE IF relevant
                          THEN [transactions |-> Append(acc.transactions, enhanced_tx),
                                known |-> acc.known \cup {tx.hash}]
                          ELSE acc
         IN  web_process_txs(acc2, address, block_height, txs, i + 1)

web_process_block_for_wallet(acc, address, block) ==
    LET block_height == block.index
        miner == block.miner
        reward == block.reward
        reward_tx == [type |-> "reward", from |-> "network", to |-> address,
                      amount |-> reward, fee |-> 0, block_height |-> block_height,
                      hash |-> reward_hash(block_height, miner), status |-> "confirmed"]
        acc1 == IF miner # "" /\ Lower(miner) = Lower(address) /\ reward > 0
                   /\ reward_tx.hash \notin acc.known
                THEN [transactions |-> Append(acc.transactions, reward_tx),
                      known |-> acc.known \cup {reward_tx.hash}]
                ELSE acc
    IN  web_process_txs(acc1, address, block_height, block.transactions, 1)

RECURSIVE _process_txs(_, _, _, _, _)
_process_txs(acc, address, block_height, txs, i) ==
    IF i > Len(txs) THEN acc
    ELSE LET tx == txs[i]
             from_match == tx.from # "" /\ Lower(tx.from) = Lower(address)
             to_match == tx.to # "" /\ Lower(tx.to) = Lower(address)
             enhanced_tx == [type |-> "transfer",
                             from |-> IF tx.from # "" THEN tx.from ELSE "unknown",
                             to |-> IF tx.to # "" THEN tx.to ELSE "unknown",
                             amount |-> tx.amount, fee |-> tx.fee,
                             block_height |-> block_height, hash |-> tx.hash,
                             status |-> "confirmed"]
             acc2 == IF tx.hash = "" \/ tx.hash \in acc.known THEN acc
                     ELSE IF from_match \/ to_match
                          THEN [transactions |-> Append(acc.transactions, enhanced_tx),
                                known |-> acc.known \cup {tx.hash}]
                          ELSE acc
         IN  _process_txs(acc2, address, block_height, txs, i + 1)

_process_block_for_wallet(acc, address, block) ==
    LET block_height == block.index
        miner == block.miner
        reward == block.reward
        reward_tx == [type |-> "reward", from |-> "network", to |-> address,
                      amount |-> reward, fee |-> 0, block_height |-> block_height,
                      hash |-> reward_hash(block_height, miner), status |-> "confirmed"]
        acc1 == IF miner # "" /\ reward > 0 /\ Lower(miner) = Lower(address)
                   /\ reward_tx.hash \notin acc.known
                THEN [transactions |-> Append(acc.transactions, reward_tx),
                      known |-> acc.known \cup {reward_tx.hash}]
                ELSE acc
    IN  _process_txs(acc1, address, block_height, block.transactions, 1)

RECURSIVE web_process_blocks(_, _, _, _)
web_process_blocks(acc, address, blocks, i) ==
    IF i > Len(blocks) THEN acc
    ELSE web_process_blocks(web_process_block_for_wallet(acc, address, blocks[i]),
                            address, blocks, i + 1)

RECURSIVE _process_blocks(_, _, _, _)
_process_blocks(acc, address, blocks, i) ==
    IF i > Len(blocks) THEN acc
    ELSE _process_blocks(_process_block_for_wallet(acc, address, blocks[i]),
                         address, blocks, i + 1)

-----------------------------------------------------------------------------
(* Balance replay *)

RECURSIVE SumBalance(_, _, _)
\* web _calculate_balance_from_transactions, before the floor at 0
SumBalance(transactions, address, i) ==
    IF i > Len(transactions) THEN 0
    ELSE LET tx == transactions[i]
             delta == IF tx.status # "confirmed" THEN 0
                      ELSE IF tx.type = "reward" /\ tx.to # ""
                              /\ Lower(tx.to) = Lower(address) THEN tx.amount
                      ELSE IF tx.from # "" /\ Lower(tx.from) = Lower(address)
                           THEN 0 - (tx.amount + tx.fee)
                      ELSE IF tx.to # "" /\ Lower(tx.to) = Lower(address) THEN tx.amount
                      ELSE 0
         IN  delta + SumBalance(transactions, address, i + 1)

_calculate_balance_from_transactions(transactions, address) ==
    Max(0, SumBalance(transactions, address, 1))

RECURSIVE _update_wallet_balance(_, _, _)
\* desktop _update_wallet_balance: every record counts, no fee, no floor
_update_wallet_balance(transactions, address, i) ==
    IF i > Len(transactions) THEN 0
    ELSE LET tx == transactions[i]
             delta == IF tx.to # "" /\ Lower(tx.to) = Lower(address) THEN tx.amount
                      ELSE IF tx.from # "" /\ Lower(tx.from) = Lower(address)
                           THEN 0 - tx.amount
                      ELSE 0
         IN  delta + _update_wallet_balance(transactions, address, i + 1)

-----------------------------------------------------------------------------
(* Persistence and callbacks *)

NoPassword == ""

Checkpoint(height, type) == [last_scanned_height |-> height, scan_type |-> type]

\* save_wallet: writes both files when unlocked, holding wallets and a password
save_wallet(unlocked, ws, ptxs, password, wfile, pfile) ==
    IF unlocked /\ ws # <<>> /\ password # NoPassword
    THEN [ok |-> TRUE, wallet_file |-> [password |-> password, wallets |-> ws],
          pending_file |-> ptxs]
    ELSE [ok |-> FALSE, wallet_file |-> wfile, pending_file |-> pfile]

Outcome(op, result, fired, error) ==
    [op |-> op, result |-> result, fired |-> fired, error |-> error]

\* for wallet in self.wallets: if wallet["address"] == from: pending_send = max(0, .. - amount)
ReleasePending(ws, from, amount) ==
    [k \in DOMAIN ws |->
        IF ws[k].address = from
        THEN [ws[k] EXCEPT !.pending_send = Max(0, @ - amount)]
        ELSE ws[k]]

BlockchainHashes(blocks) ==
    UNION { { blocks[b].transactions[t].hash : t \in DOMAIN blocks[b].transactions }
            : b \in DOMAIN blocks }

-----------------------------------------------------------------------------
(* Reconciliation of the pending list.  st = [pending_txs, wallets, updated] *)
(* Only the web library runs it, at the end of scan_blockchain; the desktop *)
(* library defines _update_pending_transactions and never calls it.         *)

RECURSIVE web_update_pending_loop(_, _, _)
web_update_pending_loop(st, blockchain_hashes, i) ==
    IF i > Len(st.pending_txs) THEN st
    ELSE LET pending_tx == st.pending_txs[i]
             st2 == IF pending_tx.hash \in blockchain_hashes
                    THEN [st EXCEPT !.pending_txs[i].status = "confirmed",
                                    !.updated = TRUE]
                    ELSE IF pending_tx.timestamp < now - pending_timeout
                    THEN [st EXCEPT !.pending_txs[i].status = "failed",
                                    !.updated = TRUE,
                                    !.wallets = ReleasePending(st.wallets, pending_tx.from,
                                                               pending_tx.amount)]
                    ELSE st
         IN  web_update_pending_loop(st2, blockchain_hashes, i + 1)

\* web _update_pending_transactions(blockchain)
web_update_pending_transactions(ws, ptxs, blockchain) ==
    web_update_pending_loop([pending_txs |-> ptxs, wallets |-> ws, updated |-> FALSE],
                            BlockchainHashes(blockchain), 1)

-----------------------------------------------------------------------------
(* web scan_blockchain *)

RECURSIVE web_scan_batches(_, _, _, _, _)
web_scan_batches(acc, address, batch_start, end_height, down) ==
    IF batch_start > end_height THEN [acc |-> acc, blocks_scanned |-> 0]
    ELSE LET batch_end == Min(batch_start + scan_batch_size - 1, end_height)
             blocks == web_get_blocks_range(batch_start, batch_end, batch_start \in down)
             acc2 == web_process_blocks(acc, address, blocks, 1)
             rest == web_scan_batches(acc2, address, batch_start + scan_batch_size,
                                      end_height, down)
         IN  [acc |-> rest.acc, blocks_scanned |-> Len(blocks) + rest.blocks_scanned]

KnownHashes(transactions) == { transactions[k].hash : k \in DOMAIN transactions }

\* web _scan_wallet_blocks: known hashes come from the wallet's own list
web_scan_wallet_blocks(wallet, start_height, end_height, down) ==
    IF start_height > end_height THEN [wallet |-> wallet, blocks_scanned |-> 0]
    ELSE LET scanned(r) ==
                 [wallet |-> [wallet EXCEPT
                                !.transactions = r.acc.transactions,
                                !.balance = _calculate_balance_from_transactions(
                                                r.acc.transactions, wallet.address)],
                  blocks_scanned |-> r.blocks_scanned]
         IN  scanned(web_scan_batches([transactions |-> wallet.transactions,
                                       known |-> KnownHashes(wallet.transactions)],
                                      wallet.address, start_height, end_height, down))

RECURSIVE web_scan_wallets(_, _, _, _, _)
\* the loop over self.wallets; st = [wallets, scan_state, last_full_scan,
\*                                   scan_state_file, updates, fired]
web_scan_wallets(st, i, current_height, needs_full_scan, down) ==
    IF i > Len(st.wallets) THEN st
    ELSE
    LET wallet == st.wallets[i]
        address == wallet.address
        last_scanned_height ==
            IF address \in DOMAIN st.scan_state.wallets
            THEN st.scan_state.wallets[address].last_scanned_height ELSE 0
        full == needs_full_scan \/ last_scanned_height = 0
        start_height == IF full THEN 0 ELSE last_scanned_height + 1
        scan_type == IF full THEN "full" ELSE "incremental"
        end_height == Min(current_height, start_height + max_blocks_per_scan - 1)
        \* r is what _scan_wallet_blocks returned; ss the scan state after it
        checkpointed(r, ss) ==
            LET scanned == r.blocks_scanned > 0
                changed == r.wallet.balance # wallet.balance
                           \/ Len(r.wallet.transactions) # Len(wallet.transactions)
            IN  [wallets |-> [st.wallets EXCEPT ![i] = r.wallet],
                 scan_state |-> IF scanned THEN ss ELSE st.scan_state,
                 last_full_scan |-> IF scanned /\ needs_full_scan THEN now
                                    ELSE st.last_full_scan,
                 scan_state_file |-> IF scanned THEN ss ELSE st.scan_state_file,
                 updates |-> st.updates \/ changed,
                 fired |-> IF changed THEN st.fired \cup {"on_transaction_received"}
                           ELSE st.fired]
        st2 == IF current_height >= start_height /\ start_height <= end_height
               THEN checkpointed(
                        web_scan_wallet_blocks(wallet, start_height, end_height, down),
                        [wallets |-> (address :> Checkpoint(end_height, scan_type))
                                         @@ st.scan_state.wallets,
                         last_full_scan |-> IF needs_full_scan THEN now
                                            ELSE st.scan_state.last_full_scan])
               ELSE st
    IN  web_scan_wallets(st2, i + 1, current_height, needs_full_scan, down)

\* web _get_recent_blocks(count)
web_get_recent_blocks(count, heightOK, rangeOK) ==
    LET current_height == web_get_current_blockchain_height(heightOK)
    IN  IF current_height = NoneVal THEN <<>>
        ELSE web_get_blocks_range(Max(0, current_height - count + 1), current_height,
                                  ~rangeOK)

\* What one invocation of scan_blockchain may meet on the network
NetOK == [heightOK |-> TRUE, manualOK |-> TRUE, recentOK |-> TRUE, down |-> {}]

NetDown == [NetOK EXCEPT !.heightOK = FALSE, !.manualOK = FALSE, !.recentOK = FALSE]

\* everything answers; or the height lookup fails (and the manual count with
\* it, or not); or the fetch of the recent blocks fails; or some range
\* fetches fail
ScanOutcomes ==
    {NetOK, [NetOK EXCEPT !.heightOK = FALSE],
     [NetOK EXCEPT !.heightOK = FALSE, !.manualOK = FALSE],
     [NetOK EXCEPT !.recentOK = FALSE]}
    \cup { [NetOK EXCEPT !.down = F] :
             F \in { G \in SUBSET (0 .. Len(chain) - 1) :
                       Cardinality(G) <= MaxFailedFetches } }

Unchanged(result, fired) ==
    [result |-> result, fired |-> fired,
     wallets |-> wallets, pending_txs |-> pending_txs, scan_state |-> scan_state,
     last_full_scan |-> last_full_scan, wallet_file |-> wallet_file,
     pending_file |-> pending_file, scan_state_file |-> scan_state_file]

\* web scan_blockchain(force_full_scan): the values it leaves behind
web_scan_blockchain(force_full_scan, net) ==
    LET current_height == web_get_current_blockchain_height(net.heightOK)
        needs_full_scan == force_full_scan \/ now - last_full_scan > full_scan_interval
        \* st is what the loop over the wallets left, pfile1 the pending file
        \* and up the lists after _update_pending_transactions
        saved(st, up, pfile1, sv) ==
            [result |-> TRUE,
             fired |-> st.fired
                       \cup (IF up.updated \/ st.updates THEN {"on_balance_changed"} ELSE {})
                       \cup {"on_sync_complete"},
             wallets |-> up.wallets, pending_txs |-> up.pending_txs,
             scan_state |-> st.scan_state, last_full_scan |-> st.last_full_scan,
             wallet_file |-> sv.wallet_file, pending_file |-> sv.pending_file,
             scan_state_file |-> st.scan_state_file]
        written(st, up, pfile1) ==
            saved(st, up, pfile1,
                  IF st.updates
                  THEN save_wallet(TRUE, up.wallets, up.pending_txs, wallet_password,
                                   wallet_file, pfile1)
                  ELSE [ok |-> FALSE, wallet_file |-> wallet_file,
                        pending_file |-> pfile1])
        updated(st, up) ==
            written(st, up, IF up.updated THEN up.pending_txs ELSE pending_file)
        scanned(st, recent_blocks) ==
            updated(st,
                    IF recent_blocks # <<>>
                    THEN web_update_pending_transactions(st.wallets, pending_txs,
                                                         recent_blocks)
                    ELSE [pending_txs |-> pending_txs, wallets |-> st.wallets,
                          updated |-> FALSE])
    IN  IF ~is_unlocked THEN Unchanged(FALSE, {})
        ELSE IF current_height = NoneVal THEN Unchanged(FALSE, {})
        ELSE scanned(web_scan_wallets([wallets |-> wallets, scan_state |-> scan_state,
                                       last_full_scan |-> last_full_scan,
                                       scan_state_file |-> scan_state_file,
                                       updates |-> FALSE, fired |-> {}],
                                      1, current_height, needs_full_scan, net.down),
                     web_get_recent_blocks(recent_block_count, net.heightOK,
                                           net.recentOK))

-----------------------------------------------------------------------------
(* desktop scan_blockchain *)

\* desktop _scan_wallet_blocks_batch: known_tx_hashes starts empty in every batch
_scan_wallet_blocks_batch(transactions, address, start_height, end_height, down) ==
    LET blockchain_data == _get_blockchain_range_via_api(start_height, end_height, down)
    IN  IF blockchain_data = <<>> THEN transactions
        ELSE _process_blocks([transactions |-> transactions, known |-> {}],
                             address, blockchain_data, 1).transactions

RECURSIVE _scan_batches(_, _, _, _, _)
\* for batch_start in range(0, current_height, batch_size)
_scan_batches(transactions, address, batch_start, current_height, down) ==
    IF batch_start >= current_height THEN transactions
    ELSE LET batch_end == Min(batch_start + batch_size - 1, current_height - 1)
         IN  _scan_batches(
                 _scan_wallet_blocks_batch(transactions, address, batch_start,
                                           batch_end, down),
                 address, batch_start + batch_size, current_height, down)

RECURSIVE _scan_wallets(_, _, _, _)
\* the loop over valid_wallets; st = [wallets, scan_state, last_full_scan,
\*                                    scan_state_file, updates]
_scan_wallets(st, i, current_height, down) ==
    IF i > Len(st.wallets) THEN st
    ELSE
    LET wallet == st.wallets[i]
        address == wallet.address
        ss == [wallets |-> (address :> Checkpoint(current_height - 1, "full"))
                               @@ st.scan_state.wallets,
               last_full_scan |-> now]
        balanced(transactions, new_balance) ==
            [wallets |-> [st.wallets EXCEPT ![i] =
                            [wallet EXCEPT !.transactions = transactions,
                                           !.balance = new_balance]],
             scan_state |-> ss,
             last_full_scan |-> now,
             scan_state_file |-> ss,
             updates |-> st.updates
                         \/ new_balance # wallet.balance
                         \/ Len(transactions) # Len(wallet.transactions)]
        scanned(transactions) ==
            balanced(transactions, _update_wallet_balance(transactions, address, 1))
        st2 == scanned(_scan_batches(wallet.transactions, address, 0, current_height, down))
    IN  _scan_wallets(st2, i + 1, current_height, down)

\* desktop scan_blockchain(force_full_scan): the values it leaves behind
scan_blockchain(force_full_scan, net) ==
    LET h0 == _get_current_blockchain_height(net.heightOK)
        current_height == IF h0 = 0 THEN _get_manual_block_count(net.manualOK) ELSE h0
        \* st is what the loop over the wallets left
        saved(st, sv) ==
            [result |-> TRUE,
             fired |-> (IF st.updates
                        THEN {"on_balance_changed", "on_transaction_received"} ELSE {})
                       \cup {"on_sync_complete"},
             wallets |-> st.wallets, pending_txs |-> pending_txs,
             scan_state |-> st.scan_state, last_full_scan |-> st.last_full_scan,
             wallet_file |-> sv.wallet_file, pending_file |-> sv.pending_file,
             scan_state_file |-> st.scan_state_file]
        scanned(st) ==
            saved(st,
                  IF st.updates
                  THEN save_wallet(TRUE, st.wallets, pending_txs, wallet_password,
                                   wallet_file, pending_file)
                  ELSE [ok |-> FALSE, wallet_file |-> wallet_file,
                        pending_file |-> pending_file])
    IN  IF ~is_unlocked THEN Unchanged(FALSE, {})
        ELSE IF current_height <= 0 THEN Unchanged(TRUE, {})
        ELSE IF wallets = <<>> THEN Unchanged(TRUE, {})
        ELSE scanned(_scan_wallets([wallets |-> wallets, scan_state |-> scan_state,
                                    last_full_scan |-> last_full_scan,
                                    scan_state_file |-> scan_state_file,
                                    updates |-> FALSE],
                                   1, current_height, net.down))

ScanResult(force_full_scan, net) ==
    IF variant = "web" THEN web_scan_blockchain(force_full_scan, net)
    ELSE scan_blockchain(force_full_scan, net)

-----------------------------------------------------------------------------
(* The state after construction: LunaLib(auto_scan=False) beside a wallet   *)
(* file that holds one freshly created wallet.                              *)

\* no auto-scan loop started, no scan of the loop in flight
IdleScanner ==
    [scanning |-> FALSE, loops |-> 0, scan_count |-> 0, pc |-> "idle",
     needs_full_scan |-> FALSE, start_height |-> 0, end_height |-> 0, known |-> {},
     wallet |-> NewWallet("")]

IdleSend ==
    [pc |-> "idle", to |-> "", amount |-> 0, current_time |-> 0, hash |-> "",
     status |-> 0, detached |-> FALSE, wallet |-> NewWallet("")]

EmptyScanState == [wallets |-> [a \in {} |-> Checkpoint(0, "none")], last_full_scan |-> 0]

InitBeside(file) ==
    /\ variant \in {"desktop", "web"}
    /\ now = Epoch0
    /\ chain = <<GenesisBlock>>
    /\ mempool = {}
    /\ is_unlocked = FALSE
    /\ wallets = <<>>
    /\ pending_txs = <<>>
    /\ wallet_password = NoPassword
    /\ scan_state = EmptyScanState
    /\ last_full_scan = 0
    /\ watched_tx_hashes = {}
    /\ mempool_monitoring = FALSE
    /\ mempool_watcher_alive = FALSE
    /\ wallet_file = file
    /\ pending_file = <<>>
    /\ scan_state_file = EmptyScanState
    /\ send = IdleSend
    /\ locking = "idle"
    /\ auto_scan = IdleScanner
    /\ last = Outcome("init", TRUE, {}, "")

Init == InitBeside([password |-> Password, wallets |-> <<NewWallet(OurAddress)>>])

-----------------------------------------------------------------------------
(* The environment: time and the remote node *)

Tick(d) ==
    /\ now + d <= MaxTime
    /\ d = SmallStep => (now - Epoch0) % BigStep < MaxSmallSteps * SmallStep
    /\ now' = now + d
    /\ UNCHANGED <<variant, auto_scan, locking, mempool_watcher_alive, chain, mempool, is_unlocked, wallets, pending_txs,
                   wallet_password, scan_state, last_full_scan, watched_tx_hashes,
                   mempool_monitoring, wallet_file, pending_file, scan_state_file,
                   send, last>>

ChainHashes == BlockchainHashes(chain)

\* another party posts a transaction to the remote mempool
RemoteSubmit(t) ==
    /\ t \notin mempool
    /\ t.hash \notin ChainHashes
    /\ mempool' = mempool \cup {t}
    /\ UNCHANGED <<variant, auto_scan, locking, mempool_watcher_alive, now, chain, is_unlocked, wallets, pending_txs,
                   wallet_password, scan_state, last_full_scan, watched_tx_hashes,
                   mempool_monitoring, wallet_file, pending_file, scan_state_file,
                   send, last>>

\* the lists that hold every element of S once
Orderings(S) ==
    { q \in [1 .. Cardinality(S) -> S] :
        \A a, b \in 1 .. Cardinality(S) : a # b => q[a] # q[b] }

\* the remote mines its whole mempool into a block
RemoteMine(miner, txs) ==
    /\ Len(chain) < MaxChain
    /\ Lower(miner) = Lower(OurAddress) =>
           Cardinality({ b \in DOMAIN chain : Lower(chain[b].miner) = Lower(OurAddress) })
               < MaxRewards
    /\ chain' = Append(chain, [index |-> Len(chain), miner |-> miner,
                               reward |-> BlockReward, transactions |-> txs])
    /\ mempool' = mempool \ { txs[k] : k \in DOMAIN txs }
    /\ UNCHANGED <<variant, auto_scan, locking, mempool_watcher_alive, now, is_unlocked, wallets, pending_txs,
                   wallet_password, scan_state, last_full_scan, watched_tx_hashes,
                   mempool_monitoring, wallet_file, pending_file, scan_state_file,
                   send, last>>

-----------------------------------------------------------------------------
(* Lock and unlock *)

\* a reference the sending thread still holds to a wallet dict that
\* self.wallets no longer contains
Detach(s) ==
    IF s.pc # "idle" /\ ~s.detached
    THEN [s EXCEPT !.detached = TRUE, !.wallet = wallets[1]]
    ELSE s

RECURSIVE EnsureScanState(_, _, _)
\* unlock_wallet: a checkpoint at height 0 for every address that has none
EnsureScanState(ss, ws, i) ==
    IF i > Len(ws) THEN ss
    ELSE EnsureScanState(
            IF ws[i].address \in DOMAIN ss.wallets THEN ss
            ELSE [ss EXCEPT !.wallets = (ws[i].address :> Checkpoint(0, "none")) @@ @],
            ws, i + 1)

\* wallet_encrypted.dat where there is none
NoFile == [password |-> NoPassword, wallets |-> <<>>]

\* any password taken for the right one
CanDecrypt_any_password(file, password) == file # NoFile

\* load_encrypted_wallet returns the wallets: the file exists and the key
\* derived from the password decrypts it
CanDecrypt(file, password) == file # NoFile /\ file.password = password

unlock_wallet(password) ==
    IF CanDecrypt(wallet_file, password)
    THEN /\ wallets' = wallet_file.wallets
         /\ pending_txs' = pending_file
         /\ is_unlocked' = TRUE
         /\ wallet_password' = password
         /\ scan_state' = EnsureScanState(scan_state, wallet_file.wallets, 1)
         /\ mempool_monitoring' = (variant = "desktop" \/ mempool_monitoring)
         \* start_mempool_monitoring: a thread is started unless the flag is set
         /\ mempool_watcher_alive' = IF variant = "desktop" /\ ~mempool_monitoring
                                     THEN TRUE ELSE mempool_watcher_alive
         /\ send' = Detach(send)
         /\ last' = Outcome("unlock_wallet", TRUE, {"on_balance_changed"}, "")
         /\ UNCHANGED <<variant, auto_scan, locking, now, chain, mempool, last_full_scan,
                        watched_tx_hashes, wallet_file, pending_file, scan_state_file>>
    ELSE /\ last' = Outcome("unlock_wallet", FALSE, {}, "")
         /\ UNCHANGED <<variant, auto_scan, locking, mempool_watcher_alive, now, chain, mempool, is_unlocked, wallets, pending_txs,
                        wallet_password, scan_state, last_full_scan, watched_tx_hashes,
                        mempool_monitoring, wallet_file, pending_file, scan_state_file,
                        send>>

lock_wallet ==
    /\ is_unlocked' = FALSE
    /\ wallets' = <<>>
    /\ pending_txs' = <<>>
    /\ mempool_monitoring' = (IF variant = "desktop" THEN FALSE ELSE mempool_monitoring)
    /\ send' = Detach(send)
    /\ last' = Outcome("lock_wallet", TRUE, {}, "")
    /\ UNCHANGED <<variant, auto_scan, locking, mempool_watcher_alive, now, chain, mempool, wallet_password, scan_state,
                   last_full_scan, watched_tx_hashes, wallet_file, pending_file,
                   scan_state_file>>

-----------------------------------------------------------------------------
(* scan_blockchain called by the auto-scan loop or by a manual sync *)

RecordsWithinBound(ws) == \A k \in DOMAIN ws : Len(ws[k].transactions) <= MaxRecords

ApplyScan(r) ==
    /\ RecordsWithinBound(r.wallets)
    /\ wallets' = r.wallets
    /\ pending_txs' = r.pending_txs
    /\ scan_state' = r.scan_state
    /\ last_full_scan' = r.last_full_scan
    /\ wallet_file' = r.wallet_file
    /\ pending_file' = r.pending_file
    /\ scan_state_file' = r.scan_state_file

scan_blockchain_call(force_full_scan, net) ==
    LET returned(r) ==
            /\ ApplyScan(r)
            /\ last' = Outcome("scan_blockchain", r.result, r.fired, "")
    IN  /\ returned(ScanResult(force_full_scan, net))
        /\ UNCHANGED <<variant, auto_scan, locking, mempool_watcher_alive, now, chain, mempool, is_unlocked, wallet_password,
                       watched_tx_hashes, mempool_monitoring, send>>

-----------------------------------------------------------------------------
(* MempoolMonitor (desktop only) *)

OurAddresses(ws) == { Lower(ws[k].address) : k \in DOMAIN ws }

PendingEntry(hash, from, to, amount, timestamp) ==
    [hash |-> hash, from |-> from, to |-> to, amount |-> amount,
     status |-> "pending", timestamp |-> timestamp]

\* the wallet's address compared as written, not lower-cased
ReservePending_exact_case(ws, from_addr, amount) ==
    [k \in DOMAIN ws |->
        IF ws[k].address = from_addr
        THEN [ws[k] EXCEPT !.pending_send = @ + amount]
        ELSE ws[k]]

\* for wallet in self.wallets: if wallet['address'].lower() == from_addr: pending_send += amount
ReservePending(ws, from_addr, amount) ==
    [k \in DOMAIN ws |->
        IF Lower(ws[k].address) = from_addr
        THEN [ws[k] EXCEPT !.pending_send = @ + amount]
        ELSE ws[k]]

\* a hash in watched_tx_hashes met again and processed again
AlreadyWatched_never(tx_hash, watched) == tx_hash = ""

\* if not tx_hash or tx_hash in self.watched_tx_hashes: continue
AlreadyWatched(tx_hash, watched) == tx_hash = "" \/ tx_hash \in watched

RECURSIVE _process_mempool_transactions(_, _, _, _)
\* st = [watched, pending_txs, wallets, new_txs_found, fired]
_process_mempool_transactions(st, mempool_txs, our_addresses, i) ==
    IF i > Len(mempool_txs) THEN st
    ELSE
    LET tx == mempool_txs[i]
        from_addr == Lower(tx.from)
        to_addr == Lower(tx.to)
        outgoing == from_addr \in our_addresses
        appended == outgoing /\ tx.hash \notin KnownHashes(st.pending_txs)
        reserved == \E k \in DOMAIN st.wallets : Lower(st.wallets[k].address) = from_addr
        found == st.new_txs_found \/ appended \/ reserved
        st2 == IF AlreadyWatched(tx.hash, st.watched) THEN st
               ELSE IF outgoing \/ to_addr \in our_addresses
               THEN [watched |-> st.watched \cup {tx.hash},
                     pending_txs |-> IF appended
                                     THEN Append(st.pending_txs,
                                                 PendingEntry(tx.hash, from_addr, to_addr,
                                                              tx.amount, now))
                                     ELSE st.pending_txs,
                     wallets |-> ReservePending(st.wallets, from_addr, tx.amount),
                     new_txs_found |-> found,
                     fired |-> IF found THEN st.fired \cup {"on_balance_changed"}
                               ELSE st.fired]
               ELSE st
    IN  _process_mempool_transactions(st2, mempool_txs, our_addresses, i + 1)

\* one iteration of _mempool_monitor in which the mempool is polled;
\* mempool_txs is what _get_mempool returned ([] when the poll failed)
_mempool_monitor(mempool_txs) ==
    /\ variant = "desktop"
    /\ mempool_watcher_alive
    /\ mempool_monitoring /\ is_unlocked
    /\ wallets # <<>>
    /\ LET st == _process_mempool_transactions(
                     [watched |-> watched_tx_hashes, pending_txs |-> pending_txs,
                      wallets |-> wallets, new_txs_found |-> FALSE, fired |-> {}],
                     mempool_txs, OurAddresses(wallets), 1)
       IN  /\ watched_tx_hashes' = st.watched
           /\ pending_txs' = st.pending_txs
           /\ wallets' = st.wallets
           /\ last' = Outcome("_mempool_monitor", st.new_txs_found,
                              st.fired \cup (IF st.new_txs_found
                                             THEN {"on_transaction_received"} ELSE {}),
                              "")
    /\ UNCHANGED <<variant, auto_scan, locking, mempool_watcher_alive, now, chain, mempool, is_unlocked, wallet_password,
                   scan_state, last_full_scan, mempool_monitoring, wallet_file,
                   pending_file, scan_state_file, send>>

\* the lists _get_mempool may return: the mempool in some order, or []
MempoolAnswers == {<<>>} \cup Orderings(mempool)

-----------------------------------------------------------------------------
(* TransactionSubmitter: send_transaction, one thread, three positions *)

SendTo == {"y"}
SendAmounts == {2}

\* sha256 over the canonical record: one value per (from, to, amount, timestamp/nonce)
tx_hash(from, to, amount, timestamp) ==
    "sha_" \o from \o "_" \o to \o "_" \o ToString(amount) \o "_" \o ToString(timestamp)

\* the wallet dict the local variable `wallet` refers to
SendWallet == IF send.detached THEN send.wallet ELSE wallets[1]

OurRemoteTxs ==
    { t \in mempool : t \notin ExternalTxs }
    \cup UNION { { chain[b].transactions[k] : k \in DOMAIN chain[b].transactions }
                 \ ExternalTxs : b \in DOMAIN chain }

\* the window cut to a minute
Duplicate_within_a_minute(ptxs, from, to_address, amount, current_time) ==
    \E k \in DOMAIN ptxs :
        /\ ptxs[k].from = from
        /\ ptxs[k].to = to_address
        /\ ptxs[k].amount = amount
        /\ ptxs[k].status = "pending"
        /\ current_time - ptxs[k].timestamp < 60

Duplicate(ptxs, from, to_address, amount, current_time) ==
    \E k \in DOMAIN ptxs :
        /\ ptxs[k].from = from
        /\ ptxs[k].to = to_address
        /\ ptxs[k].amount = amount
        /\ ptxs[k].status = "pending"
        /\ current_time - ptxs[k].timestamp < duplicate_check_window

\* the fee left out of the required amount
InsufficientBalance_without_fee(balance, pending_send, amount) ==
    balance - pending_send < amount

InsufficientBalance(balance, pending_send, amount) ==
    balance - pending_send < amount + FIXED_FEE

\* the refusal comes only after a full scan was recorded
send_transaction_refused_after_scan ==
    /\ last' = Outcome("send_transaction", FALSE, {}, "")
    /\ last_full_scan' = now
    /\ UNCHANGED <<wallets, pending_txs, scan_state,
                   wallet_file, pending_file, scan_state_file, send>>

\* if not self.is_unlocked or not self.wallets: return False
send_transaction_refused ==
    /\ last' = Outcome("send_transaction", FALSE, {}, "")
    /\ UNCHANGED <<wallets, pending_txs, scan_state, last_full_scan,
                   wallet_file, pending_file, scan_state_file, send>>

\* entry: the guard, the incremental scan that refreshes the balance, the
\* balance check, the duplicate guard, and the building of the transaction
send_transaction_start(to_address, amount, net) ==
    /\ send.pc = "idle"
    /\ IF ~is_unlocked \/ wallets = <<>>
       THEN send_transaction_refused
       ELSE LET \* r is what the scan left, wallet the first wallet after it
                scanned(r, wallet) ==
                    /\ ApplyScan(r)
                    /\ IF InsufficientBalance(wallet.balance, wallet.pending_send, amount)
                       THEN /\ send' = IdleSend
                            /\ last' = Outcome("send_transaction", FALSE,
                                               r.fired \cup {"on_error"},
                                               "Insufficient balance")
                       ELSE IF Duplicate(r.pending_txs, wallet.address, to_address,
                                         amount, now)
                       THEN /\ send' = IdleSend
                            /\ last' = Outcome("send_transaction", FALSE,
                                               r.fired \cup {"on_error"},
                                               "Duplicate transaction detected")
                       ELSE /\ send' = [IdleSend EXCEPT
                                          !.pc = "broadcast", !.to = to_address,
                                          !.amount = amount, !.current_time = now,
                                          !.hash = tx_hash(wallet.address, to_address,
                                                           amount, now)]
                            /\ last' = Outcome("scan_blockchain", r.result, r.fired, "")
                first(r) == scanned(r, r.wallets[1])
            IN  first(ScanResult(FALSE, net))
    /\ UNCHANGED <<variant, auto_scan, locking, mempool_watcher_alive, now, chain, mempool, is_unlocked, wallet_password,
                   watched_tx_hashes, mempool_monitoring>>

\* what the POST to mempool/add may come back with: 201, another status, or
\* an exception (0); the node may have taken the transaction even so
BroadcastAnswers ==
    { [accepted |-> TRUE, status |-> 201], [accepted |-> TRUE, status |-> 0],
      [accepted |-> FALSE, status |-> 400], [accepted |-> FALSE, status |-> 0] }

\* the final balance check, then requests.post
send_transaction_broadcast(answer) ==
    /\ send.pc = "broadcast"
    /\ answer.accepted => Cardinality(OurRemoteTxs) < MaxSends
    /\ LET wallet == SendWallet
           tx == [hash |-> send.hash, from |-> wallet.address, to |-> send.to,
                  amount |-> send.amount, fee |-> FIXED_FEE,
                  timestamp |-> send.current_time]
       IN  IF InsufficientBalance(wallet.balance, wallet.pending_send, send.amount)
           THEN /\ send' = IdleSend
                /\ last' = Outcome("send_transaction", FALSE, {"on_error"},
                                   "Balance changed")
                /\ UNCHANGED mempool
           ELSE /\ send' = [send EXCEPT !.pc = "response", !.status = answer.status]
                /\ mempool' = IF answer.accepted THEN mempool \cup {tx} ELSE mempool
                /\ UNCHANGED last
    /\ UNCHANGED <<variant, auto_scan, locking, mempool_watcher_alive, now, chain, is_unlocked, wallets, pending_txs,
                   wallet_password, scan_state, last_full_scan, watched_tx_hashes,
                   mempool_monitoring, wallet_file, pending_file, scan_state_file>>

\* any answer of the node taken for an acceptance
Accepted_any_answer(status_code) == status_code # 0

\* if response.status_code == 201
Accepted(status_code) == status_code = 201

\* the response is handled: on 201 the reservation is recorded
send_transaction_response ==
    /\ send.pc = "response"
    /\ send' = IdleSend
    /\ IF Accepted(send.status)
       THEN LET wallet == SendWallet
                ptxs == Append(pending_txs,
                               PendingEntry(send.hash, wallet.address, send.to,
                                            send.amount, send.current_time))
                ws == IF send.detached THEN wallets
                      ELSE [wallets EXCEPT ![1].pending_send = @ + send.amount]
                sv == save_wallet(is_unlocked, ws, ptxs, wallet_password,
                                  wallet_file, pending_file)
            IN  /\ pending_txs' = ptxs
                /\ wallets' = ws
                /\ watched_tx_hashes' = IF variant = "desktop"
                                        THEN watched_tx_hashes \cup {send.hash}
                                        ELSE watched_tx_hashes
                /\ wallet_file' = sv.wallet_file
                /\ pending_file' = sv.pending_file
                /\ last' = Outcome("send_transaction", TRUE,
                                   {"on_balance_changed"}
                                       \cup (IF sv.ok THEN {} ELSE {"on_error"}), "")
       ELSE /\ last' = Outcome("send_transaction", FALSE, {"on_error"},
                               IF send.status = 0 THEN "Send failed" ELSE "Network error")
            /\ UNCHANGED <<pending_txs, wallets, watched_tx_hashes, wallet_file,
                           pending_file>>
    /\ UNCHANGED <<variant, auto_scan, locking, mempool_watcher_alive, now, chain, mempool, is_unlocked, wallet_password,
                   scan_state, last_full_scan, mempool_monitoring, scan_state_file>>

-----------------------------------------------------------------------------

(* All operations of the library within a few minutes of wall-clock time,    *)
(* beside a remote chain that stays short: other parties only pay in, and   *)
(* the remote node answers every request of a scan.                         *)
Next ==
    \/ Tick(SmallStep)
    \/ \E t \in FundingTxs : RemoteSubmit(t)
    \/ \E txs \in Orderings(mempool) :
           Len(chain) < ShortChain /\ RemoteMine(OtherMiner, txs)
    \/ unlock_wallet(Password)
    \/ lock_wallet
    \/ \E force \in BOOLEAN : scan_blockchain_call(force, NetOK)
    \/ \E q \in MempoolAnswers : _mempool_monitor(q)
    \/ \E to_address \in SendTo, amount \in SendAmounts :
           send_transaction_start(to_address, amount, NetOK)
    \/ \E answer \in BroadcastAnswers : send_transaction_broadcast(answer)
    \/ send_transaction_response

Spec == Init /\ [][Next]_vars

(* The web library over more than an hour, unlocked once: sends, and the    *)
(* scans that reconcile the pending list.                                   *)
NextPending ==
    \/ Tick(SmallStep + BigStep)
    \/ \E t \in FundingTxs : RemoteSubmit(t)
    \/ \E txs \in Orderings(mempool) : RemoteMine(OtherMiner, txs)
    \/ ~is_unlocked /\ unlock_wallet(Password)
    \/ \E net \in {NetOK, NetDown} : scan_blockchain_call(FALSE, net)
    \/ \E to_address \in SendTo, amount \in SendAmounts :
           send_transaction_start(to_address, amount, NetOK)
    \/ \E answer \in BroadcastAnswers : send_transaction_broadcast(answer)
    \/ send_transaction_response

InitPending == Init /\ variant = "web"

SpecPending == InitPending /\ [][NextPending]_vars

(* The scan engine alone, beside a chain long enough to exceed the per-scan *)
(* cap and to span several batches.                                         *)
NextScan ==
    \/ Tick(SmallStep + BigStep)
    \/ \E t \in ExternalTxs : RemoteSubmit(t)
    \/ \E miner \in Miners, txs \in Orderings(mempool) : RemoteMine(miner, txs)
    \/ \E password \in {Password, "bad"} : unlock_wallet(password)
    \/ lock_wallet
    \/ \E force \in BOOLEAN, net \in ScanOutcomes : scan_blockchain_call(force, net)

SpecScan == Init /\ [][NextScan]_vars

(* Sends of any amount a caller may pass, zero and negative ones included,  *)
(* while the clock stands still and the remote node answers every scan.     *)
AnyAmounts == {0 - 1, 0, 2}

NextAmounts ==
    \/ \E t \in FundingTxs : RemoteSubmit(t)
    \/ \E txs \in Orderings(mempool) :
           Len(chain) < ShortChain /\ RemoteMine(OtherMiner, txs)
    \/ ~is_unlocked /\ unlock_wallet(Password)
    \/ scan_blockchain_call(FALSE, NetOK)
    \/ \E to_address \in SendTo, amount \in AnyAmounts :
           Len(pending_txs) < MaxPending
               /\ send_transaction_start(to_address, amount, NetOK)
    \/ \E answer \in BroadcastAnswers : send_transaction_broadcast(answer)
    \/ send_transaction_response

SpecAmounts == Init /\ [][NextAmounts]_vars

(* The desktop library with its mempool monitor, beside a remote mempool    *)
(* that also holds transfers signed elsewhere for the owned address.        *)
InitMonitor == Init /\ variant = "desktop"

NextMonitor ==
    \/ \E t \in ExternalTxs : RemoteSubmit(t)
    \/ \E txs \in Orderings(mempool) :
           Len(chain) < ShortChain /\ RemoteMine(OtherMiner, txs)
    \/ ~is_unlocked /\ unlock_wallet(Password)
    \/ \E q \in MempoolAnswers : _mempool_monitor(q)
    \/ \E to_address \in SendTo, amount \in SendAmounts :
           send_transaction_start(to_address, amount, NetOK)
    \/ \E answer \in BroadcastAnswers : send_transaction_broadcast(answer)
    \/ send_transaction_response

SpecMonitor == InitMonitor /\ [][NextMonitor]_vars

-----------------------------------------------------------------------------
(* Malformed block data: the remote serves a block whose reward is JSON     *)
(* null.  The desktop reward parser skips a null value and keeps 0.0; the   *)
(* web parser calls float(None), which raises TypeError.                    *)

RemoteMineMalformed(miner, txs) ==
    /\ Len(chain) < ShortChain
    /\ chain' = Append(chain, [index |-> Len(chain), miner |-> miner,
                               reward |-> NoneVal, transactions |-> txs])
    /\ mempool' = mempool \ { txs[k] : k \in DOMAIN txs }
    /\ UNCHANGED <<variant, auto_scan, locking, mempool_watcher_alive, now, is_unlocked, wallets, pending_txs,
                   wallet_password, scan_state, last_full_scan, watched_tx_hashes,
                   mempool_monitoring, wallet_file, pending_file, scan_state_file,
                   send, last>>

\* web scan_blockchain: the range of blocks it scans for a wallet
web_scan_range(wallet, force_full_scan) ==
    LET current_height == web_get_current_blockchain_height(TRUE)
        needs_full_scan == force_full_scan \/ now - last_full_scan > full_scan_interval
        last_scanned_height ==
            IF wallet.address \in DOMAIN scan_state.wallets
            THEN scan_state.wallets[wallet.address].last_scanned_height ELSE 0
        start_height == IF needs_full_scan \/ last_scanned_height = 0 THEN 0
                        ELSE last_scanned_height + 1
    IN  [start_height |-> start_height,
         end_height |-> Min(current_height, start_height + max_blocks_per_scan - 1)]

\* the heights within a range at which the reward is null
NullRewards(range) ==
    { h \in range.start_height .. range.end_height :
        h + 1 \in DOMAIN chain /\ chain[h + 1].reward = NoneVal }

\* the records _process_block_for_wallet appended before the block at
\* height bad raised
web_scan_until(wallet, start_height, bad) ==
    web_process_blocks([transactions |-> wallet.transactions,
                        known |-> KnownHashes(wallet.transactions)],
                       wallet.address, BlocksInRange(start_height, bad - 1), 1).transactions

\* web scan_blockchain meets a null reward in the range of its (one) wallet:
\* float(None) raises in _process_block_for_wallet and nothing between
\* there and the caller of scan_blockchain catches it
scan_blockchain_raises(force_full_scan) ==
    /\ variant = "web"
    /\ is_unlocked /\ Len(wallets) = 1
    /\ NullRewards(web_scan_range(wallets[1], force_full_scan)) # {}
    /\ LET raised(start_height, bad) ==
               wallets' = [wallets EXCEPT ![1].transactions =
                              web_scan_until(wallets[1], start_height,
                                             CHOOSE h \in bad : \A g \in bad : h <= g)]
       IN  raised(web_scan_range(wallets[1], force_full_scan).start_height,
                  NullRewards(web_scan_range(wallets[1], force_full_scan)))
    /\ last' = Outcome("scan_blockchain", FALSE, {}, "TypeError")
    /\ UNCHANGED <<variant, auto_scan, locking, mempool_watcher_alive, now, chain, mempool, is_unlocked, pending_txs,
                   wallet_password, scan_state, last_full_scan, watched_tx_hashes,
                   mempool_monitoring, wallet_file, pending_file, scan_state_file,
                   send>>

\* the scan meets no null reward where the library would raise on it
ScanMeetsNoNull(force_full_scan) ==
    variant = "web" /\ is_unlocked /\ wallets # <<>>
        => NullRewards(web_scan_range(wallets[1], force_full_scan)) = {}

(* The scan engine beside a remote that may serve such a block, and whose    *)
(* requests may fail.                                                       *)
NextMalformed ==
    \/ \E t \in ExternalTxs : RemoteSubmit(t)
    \/ \E miner \in Miners, txs \in Orderings(mempool) :
           Len(chain) < ShortChain /\ RemoteMine(miner, txs)
    \/ \E miner \in Miners, txs \in Orderings(mempool) : RemoteMineMalformed(miner, txs)
    \/ ~is_unlocked /\ unlock_wallet(Password)
    \/ \E force \in BOOLEAN, net \in ScanOutcomes :
           ScanMeetsNoNull(force) /\ scan_blockchain_call(force, net)
    \/ \E force \in BOOLEAN : scan_blockchain_raises(force)

SpecMalformed == Init /\ [][NextMalformed]_vars

(* Unlocking and locking, with the right password and with wrong ones,     *)
(* beside a wallet file or in a data directory that holds none.             *)
Passwords == {Password, "bad", NoPassword}

InitUnlock ==
    \E file \in {NoFile, [password |-> Password, wallets |-> <<NewWallet(OurAddress)>>]} :
        InitBeside(file)

NextUnlock ==
    \/ \E t \in FundingTxs : RemoteSubmit(t)
    \/ \E miner \in Miners, txs \in Orderings(mempool) :
           Len(chain) < ShortChain /\ RemoteMine(miner, txs)
    \/ \E password \in Passwords : unlock_wallet(password)
    \/ lock_wallet
    \/ \E force \in BOOLEAN : scan_blockchain_call(force, NetOK)

SpecUnlock == InitUnlock /\ [][NextUnlock]_vars

(* The life of the mempool monitor thread (desktop): cycles that fail, and  *)
(* the loop test that ends the thread.                                      *)

\* the cycle raised and the thread was left without a handler
_mempool_monitor_dies ==
    /\ variant = "desktop"
    /\ mempool_watcher_alive
    /\ mempool_monitoring /\ is_unlocked
    /\ wallets # <<>>
    /\ mempool_watcher_alive' = FALSE
    /\ last' = Outcome("_mempool_monitor", FALSE, {}, "Mempool monitor error")
    /\ UNCHANGED <<variant, auto_scan, locking, now, chain, mempool, is_unlocked, wallets, pending_txs,
                   wallet_password, scan_state, last_full_scan, watched_tx_hashes,
                   mempool_monitoring, wallet_file, pending_file, scan_state_file,
                   send>>

\* one iteration of _mempool_monitor in which an exception is raised before
\* anything is written (/mempool answered with JSON that is not a list of
\* records): except Exception prints, sleeps 10 s, and the loop goes on
_mempool_monitor_raises ==
    /\ variant = "desktop"
    /\ mempool_watcher_alive
    /\ mempool_monitoring /\ is_unlocked
    /\ wallets # <<>>
    /\ last' = Outcome("_mempool_monitor", FALSE, {}, "Mempool monitor error")
    /\ UNCHANGED <<variant, auto_scan, locking, mempool_watcher_alive, now, chain, mempool, is_unlocked,
                   wallets, pending_txs, wallet_password, scan_state, last_full_scan,
                   watched_tx_hashes, mempool_monitoring, wallet_file, pending_file,
                   scan_state_file, send>>

\* while self.mempool_monitoring and self.is_unlocked: the test fails and
\* the thread returns
_mempool_monitor_exits ==
    /\ variant = "desktop"
    /\ mempool_watcher_alive
    /\ ~(mempool_monitoring /\ is_unlocked)
    /\ mempool_watcher_alive' = FALSE
    /\ UNCHANGED <<variant, auto_scan, locking, now, chain, mempool, is_unlocked, wallets, pending_txs,
                   wallet_password, scan_state, last_full_scan, watched_tx_hashes,
                   mempool_monitoring, wallet_file, pending_file, scan_state_file,
                   send, last>>

NextLoop ==
    \/ \E t \in ExternalTxs : RemoteSubmit(t)
    \/ \E txs \in Orderings(mempool) :
           Len(chain) < ShortChain /\ RemoteMine(OtherMiner, txs)
    \/ unlock_wallet(Password)
    \/ lock_wallet
    \/ \E q \in MempoolAnswers : _mempool_monitor(q)
    \/ _mempool_monitor_raises
    \/ _mempool_monitor_exits

SpecLoop == InitMonitor /\ [][NextLoop]_vars

(* lock_wallet statement by statement, beside the monitor thread.          *)

\* self.is_unlocked = False
lock_wallet_is_unlocked ==
    /\ locking = "idle"
    /\ is_unlocked' = FALSE
    /\ locking' = "wallets"
    /\ UNCHANGED <<variant, auto_scan, mempool_watcher_alive, now, chain, mempool, wallets,
                   pending_txs, wallet_password, scan_state, last_full_scan,
                   watched_tx_hashes, mempool_monitoring, wallet_file, pending_file,
                   scan_state_file, send, last>>

\* self.wallets = []
lock_wallet_wallets ==
    /\ locking = "wallets"
    /\ wallets' = <<>>
    /\ send' = Detach(send)
    /\ locking' = "pending_txs"
    /\ UNCHANGED <<variant, auto_scan, mempool_watcher_alive, now, chain, mempool, is_unlocked,
                   pending_txs, wallet_password, scan_state, last_full_scan,
                   watched_tx_hashes, mempool_monitoring, wallet_file, pending_file,
                   scan_state_file, last>>

\* self.pending_txs = []; the last statement of the web lock_wallet
lock_wallet_pending_txs ==
    /\ locking = "pending_txs"
    /\ pending_txs' = <<>>
    /\ locking' = IF variant = "desktop" THEN "stop_mempool_monitoring" ELSE "idle"
    /\ last' = IF variant = "desktop" THEN last
               ELSE Outcome("lock_wallet", TRUE, {}, "")
    /\ UNCHANGED <<variant, auto_scan, mempool_watcher_alive, now, chain, mempool, is_unlocked,
                   wallets, wallet_password, scan_state, last_full_scan,
                   watched_tx_hashes, mempool_monitoring, wallet_file, pending_file,
                   scan_state_file, send>>

\* self.stop_mempool_monitoring() (desktop)
lock_wallet_stop_mempool_monitoring ==
    /\ locking = "stop_mempool_monitoring"
    /\ mempool_monitoring' = FALSE
    /\ locking' = "idle"
    /\ last' = Outcome("lock_wallet", TRUE, {}, "")
    /\ UNCHANGED <<variant, auto_scan, mempool_watcher_alive, now, chain, mempool, is_unlocked,
                   wallets, pending_txs, wallet_password, scan_state, last_full_scan,
                   watched_tx_hashes, wallet_file, pending_file, scan_state_file,
                   send>>

NextLock ==
    \/ \E t \in ExternalTxs : RemoteSubmit(t)
    \/ \E txs \in Orderings(mempool) :
           Len(chain) < ShortChain /\ RemoteMine(OtherMiner, txs)
    \/ locking = "idle" /\ unlock_wallet(Password)
    \/ lock_wallet_is_unlocked
    \/ lock_wallet_wallets
    \/ lock_wallet_pending_txs
    \/ lock_wallet_stop_mempool_monitoring
    \/ \E q \in MempoolAnswers : _mempool_monitor(q)
    \/ _mempool_monitor_exits

SpecLock == Init /\ [][NextLock]_vars

(* The desktop _update_pending_transactions.  No code of the library calls *)
(* it; it is modelled as the method it is, called on the unlocked library.  *)

RECURSIVE _update_pending_loop(_, _, _)
\* st = [pending_txs, wallets, updated]
_update_pending_loop(st, blockchain_hashes, i) ==
    IF i > Len(st.pending_txs) THEN st
    ELSE LET pending_tx == st.pending_txs[i]
             st2 == IF pending_tx.hash \in blockchain_hashes
                    THEN [st EXCEPT !.pending_txs[i].status = "confirmed",
                                    !.updated = TRUE,
                                    !.wallets = ReleasePending(st.wallets, pending_tx.from,
                                                               pending_tx.amount)]
                    ELSE IF pending_tx.timestamp < now - pending_timeout
                    THEN [st EXCEPT !.pending_txs[i].status = "failed",
                                    !.updated = TRUE,
                                    !.wallets = ReleasePending(st.wallets, pending_tx.from,
                                                               pending_tx.amount)]
                    ELSE st
         IN  _update_pending_loop(st2, blockchain_hashes, i + 1)

\* the blocks of the last heights, fetched by range
_update_pending_transactions ==
    /\ variant = "desktop"
    /\ is_unlocked
    /\ pending_txs # <<>>
    /\ LET current_height == _get_current_blockchain_height(TRUE)
           done(st) ==
               /\ pending_txs' = st.pending_txs
               /\ wallets' = st.wallets
               /\ pending_file' = IF st.updated THEN st.pending_txs ELSE pending_file
               /\ last' = Outcome("_update_pending_transactions", st.updated,
                                  IF st.updated THEN {"on_balance_changed"} ELSE {}, "")
       IN  done(_update_pending_loop(
                    [pending_txs |-> pending_txs, wallets |-> wallets, updated |-> FALSE],
                    BlockchainHashes(BlocksInRange(Max(0, current_height - recent_block_count),
                                                   current_height)),
                    1))
    /\ UNCHANGED <<variant, auto_scan, locking, mempool_watcher_alive, now, chain, mempool,
                   is_unlocked, wallet_password, scan_state, last_full_scan,
                   watched_tx_hashes, mempool_monitoring, wallet_file,
                   scan_state_file, send>>

NextReconcile ==
    \/ Tick(BigStep)
    \/ \E t \in ExternalTxs : RemoteSubmit(t)
    \/ \E txs \in Orderings(mempool) :
           Len(chain) < ShortChain /\ RemoteMine(OtherMiner, txs)
    \/ ~is_unlocked /\ unlock_wallet(Password)
    \/ \E q \in MempoolAnswers : _mempool_monitor(q)
    \/ _update_pending_transactions

SpecReconcile == InitMonitor /\ [][NextReconcile]_vars

(* A web scan_blockchain in two steps, so that other threads run while its  *)
(* block requests are in flight.  The first step is the code up to the      *)
(* first request of _scan_wallet_blocks: the is_unlocked test, the height,  *)
(* the range of the (one) wallet, old_balance and old_tx_count, and         *)
(* known_tx_hashes.  The second step is the rest.                           *)

web_scan_begin(force_full_scan) ==
    /\ variant = "web"
    /\ auto_scan.pc = "idle"
    /\ is_unlocked /\ Len(wallets) = 1
    /\ LET began(range) ==
               /\ range.start_height <= range.end_height
               /\ auto_scan' = [auto_scan EXCEPT
                      !.pc = "scanning",
                      !.needs_full_scan = force_full_scan
                                          \/ now - last_full_scan > full_scan_interval,
                      !.start_height = range.start_height,
                      !.end_height = range.end_height,
                      !.known = KnownHashes(wallets[1].transactions),
                      !.wallet = wallets[1]]
       IN  began(web_scan_range(wallets[1], force_full_scan))
    /\ UNCHANGED <<variant, locking, mempool_watcher_alive, now, chain, mempool,
                   is_unlocked, wallets, pending_txs, wallet_password, scan_state,
                   last_full_scan, watched_tx_hashes, mempool_monitoring, wallet_file,
                   pending_file, scan_state_file, send, last>>

\* the wallet dict the scan holds: the one in self.wallets, or the one
\* lock_wallet dropped from it
ScannedWallet == IF is_unlocked /\ wallets # <<>> THEN wallets[1] ELSE auto_scan.wallet

web_scan_finish ==
    /\ variant = "web"
    /\ auto_scan.pc = "scanning"
    /\ LET address == auto_scan.wallet.address
           held == is_unlocked /\ wallets # <<>>
           scan_type == IF auto_scan.start_height = 0 THEN "full" ELSE "incremental"
           ss == [wallets |-> (address :> Checkpoint(auto_scan.end_height, scan_type))
                                  @@ scan_state.wallets,
                  last_full_scan |-> IF auto_scan.needs_full_scan THEN now
                                     ELSE scan_state.last_full_scan]
           \* up is what _update_pending_transactions left, sv what save_wallet did
           saved(up, updates, sv) ==
               /\ RecordsWithinBound(up.wallets)
               /\ wallets' = up.wallets
               /\ pending_txs' = up.pending_txs
               /\ wallet_file' = sv.wallet_file
               /\ pending_file' = sv.pending_file
               /\ last' = Outcome("scan_blockchain", TRUE,
                                  (IF updates THEN {"on_transaction_received"} ELSE {})
                                  \cup (IF updates \/ up.updated
                                        THEN {"on_balance_changed"} ELSE {})
                                  \cup {"on_sync_complete"}, "")
           written(up, updates, pfile1) ==
               saved(up, updates,
                     IF updates
                     THEN save_wallet(is_unlocked, up.wallets, up.pending_txs,
                                      wallet_password, wallet_file, pfile1)
                     ELSE [ok |-> FALSE, wallet_file |-> wallet_file,
                           pending_file |-> pfile1])
           updated(up, updates) ==
               written(up, updates, IF up.updated THEN up.pending_txs ELSE pending_file)
           \* w is the wallet dict after _scan_wallet_blocks
           reconciled(w) ==
               updated(IF held
                       THEN web_update_pending_transactions(
                                [wallets EXCEPT ![1] = w], pending_txs,
                                web_get_recent_blocks(recent_block_count, TRUE, TRUE))
                       ELSE [pending_txs |-> pending_txs, wallets |-> wallets,
                             updated |-> FALSE],
                       w.balance # auto_scan.wallet.balance
                           \/ Len(w.transactions) # Len(auto_scan.wallet.transactions))
           \* r is what the batches of _scan_wallet_blocks left
           scanned(r, wallet) ==
               /\ reconciled([wallet EXCEPT
                                !.transactions = r.acc.transactions,
                                !.balance = _calculate_balance_from_transactions(
                                                r.acc.transactions, address)])
               /\ scan_state' = IF r.blocks_scanned > 0 THEN ss ELSE scan_state
               /\ scan_state_file' = IF r.blocks_scanned > 0 THEN ss ELSE scan_state_file
               /\ last_full_scan' = IF r.blocks_scanned > 0 /\ auto_scan.needs_full_scan
                                    THEN now ELSE last_full_scan
           batches(wallet) ==
               scanned(web_scan_batches([transactions |-> wallet.transactions,
                                         known |-> auto_scan.known],
                                        address, auto_scan.start_height,
                                        auto_scan.end_height, {}),
                       wallet)
       IN  batches(ScannedWallet)
    /\ auto_scan' = [IdleScanner EXCEPT !.scanning = auto_scan.scanning,
                                        !.loops = auto_scan.loops,
                                        !.scan_count = auto_scan.scan_count]
    /\ UNCHANGED <<variant, locking, mempool_watcher_alive, now, chain, mempool,
                   is_unlocked, wallet_password, watched_tx_hashes, mempool_monitoring,
                   send>>

(* The web library with a scan of the auto-scan loop in flight beside       *)
(* lock_wallet and a manual sync.                                           *)
NextInFlight ==
    \/ \E t \in FundingTxs : RemoteSubmit(t)
    \/ \E txs \in Orderings(mempool) :
           Len(chain) < ShortChain /\ RemoteMine(OtherMiner, txs)
    \/ ~is_unlocked /\ auto_scan.pc = "idle" /\ unlock_wallet(Password)
    \/ lock_wallet
    \/ \E force \in BOOLEAN : web_scan_begin(force)
    \/ web_scan_finish
    \/ \E force \in BOOLEAN : scan_blockchain_call(force, NetOK)

SpecInFlight == InitPending /\ [][NextInFlight]_vars

(* The auto-scan loop *)

\* the loop is started unless self.scanning is set
start_auto_scan ==
    /\ auto_scan' = IF auto_scan.scanning THEN auto_scan
                    ELSE [auto_scan EXCEPT !.scanning = TRUE, !.loops = @ + 1]
    /\ UNCHANGED <<variant, locking, mempool_watcher_alive, now, chain, mempool,
                   is_unlocked, wallets, pending_txs, wallet_password, scan_state,
                   last_full_scan, watched_tx_hashes, mempool_monitoring, wallet_file,
                   pending_file, scan_state_file, send, last>>

\* self.scanning = False; the join gives up after 5 s, within the 30 s the
\* loop sleeps
stop_auto_scan ==
    /\ auto_scan' = [auto_scan EXCEPT !.scanning = FALSE]
    /\ UNCHANGED <<variant, locking, mempool_watcher_alive, now, chain, mempool,
                   is_unlocked, wallets, pending_txs, wallet_password, scan_state,
                   last_full_scan, watched_tx_hashes, mempool_monitoring, wallet_file,
                   pending_file, scan_state_file, send, last>>

\* the loop goes on although self.scanning is cleared
_auto_scanner_ignores_flag(net) ==
    /\ auto_scan.loops > 0
    /\ auto_scan.pc = "idle"
    /\ is_unlocked
    /\ LET scanned(scan_count) ==
               /\ auto_scan' = [auto_scan EXCEPT !.scan_count = scan_count]
               /\ LET returned(r) ==
                          /\ ApplyScan(r)
                          /\ last' = Outcome("scan_blockchain", r.result, r.fired, "")
                  IN  returned(ScanResult(scan_count = 0, net))
       IN  scanned((auto_scan.scan_count + 1) % full_scan_every)
    /\ UNCHANGED <<variant, locking, mempool_watcher_alive, now, chain, mempool,
                   is_unlocked, wallet_password, watched_tx_hashes, mempool_monitoring,
                   send>>

\* one iteration of _auto_scanner on the unlocked library (on the locked one
\* an iteration only sleeps): scan_count += 1, force_full every
\* full_scan_every-th time, scan_blockchain.  scan_count is kept modulo
\* full_scan_every.
_auto_scanner(net) ==
    /\ auto_scan.loops > 0 /\ auto_scan.scanning
    /\ auto_scan.pc = "idle"
    /\ is_unlocked
    /\ LET scanned(scan_count) ==
               /\ auto_scan' = [auto_scan EXCEPT !.scan_count = scan_count]
               /\ LET returned(r) ==
                          /\ ApplyScan(r)
                          /\ last' = Outcome("scan_blockchain", r.result, r.fired, "")
                  IN  returned(ScanResult(scan_count = 0, net))
       IN  scanned((auto_scan.scan_count + 1) % full_scan_every)
    /\ UNCHANGED <<variant, locking, mempool_watcher_alive, now, chain, mempool,
                   is_unlocked, wallet_password, watched_tx_hashes, mempool_monitoring,
                   send>>

\* while self.scanning: the test fails and the thread returns
_auto_scanner_exits ==
    /\ auto_scan.loops > 0 /\ ~auto_scan.scanning
    /\ auto_scan.pc = "idle"
    /\ auto_scan' = [auto_scan EXCEPT !.loops = @ - 1]
    /\ UNCHANGED <<variant, locking, mempool_watcher_alive, now, chain, mempool,
                   is_unlocked, wallets, pending_txs, wallet_password, scan_state,
                   last_full_scan, watched_tx_hashes, mempool_monitoring, wallet_file,
                   pending_file, scan_state_file, send, last>>

(* The library kept unlocked with its auto-scan loop running, beside sends, *)
(* passing time and a remote that goes on mining what its mempool holds.    *)
NextResolve ==
    \/ Tick(SmallStep + BigStep)
    \/ \E t \in FundingTxs : RemoteSubmit(t)
    \/ \E txs \in Orderings(mempool) : RemoteMine(OtherMiner, txs)
    \/ ~is_unlocked /\ unlock_wallet(Password)
    \/ ~auto_scan.scanning /\ start_auto_scan
    \/ \E net \in {NetOK, NetDown} : _auto_scanner(net)
    \/ \E to_address \in SendTo, amount \in SendAmounts :
           send_transaction_start(to_address, amount, NetOK)
    \/ \E answer \in BroadcastAnswers : send_transaction_broadcast(answer)
    \/ send_transaction_response

SpecResolve ==
    /\ Init
    /\ [][NextResolve]_vars
    /\ WF_vars(Tick(SmallStep + BigStep))
    /\ WF_vars(\E txs \in Orderings(mempool) : RemoteMine(OtherMiner, txs))

(* The web library beside a remote whose chain is long and stays as it is: *)
(* LongChain blocks, none of them touching the wallet.                      *)
InitLong ==
    /\ InitBeside([password |-> Password, wallets |-> <<NewWallet(OurAddress)>>])
    /\ variant = "web"

\* the remote had mined its chain before the library was started
RemoteMineLong ==
    /\ Len(chain) < LongChain
    /\ ~is_unlocked
    /\ chain' = Append(chain, [index |-> Len(chain), miner |-> OtherMiner,
                               reward |-> BlockReward, transactions |-> <<>>])
    /\ UNCHANGED <<variant, auto_scan, locking, mempool_watcher_alive, now, mempool,
                   is_unlocked, wallets, pending_txs, wallet_password, scan_state,
                   last_full_scan, watched_tx_hashes, mempool_monitoring, wallet_file,
                   pending_file, scan_state_file, send, last>>

NextLong ==
    \/ Tick(SmallStep)
    \/ Tick(BigStep)
    \/ RemoteMineLong
    \/ Len(chain) = LongChain /\ ~is_unlocked /\ unlock_wallet(Password)
    \/ ~auto_scan.scanning /\ start_auto_scan
    \/ \E net \in {NetOK, NetDown} : _auto_scanner(net)

SpecLong ==
    /\ InitLong
    /\ [][NextLong]_vars
    /\ WF_vars(RemoteMineLong)

(* Both loops beside the calls that start and stop them: unlock_wallet and *)
(* lock_wallet for the monitor, start_auto_scan and stop_auto_scan (the     *)
(* menu items Start/Stop Auto-Sync) for the scanner.                        *)
NextStop ==
    \/ \E t \in ExternalTxs : RemoteSubmit(t)
    \/ \E txs \in Orderings(mempool) :
           Len(chain) < ShortChain /\ RemoteMine(OtherMiner, txs)
    \/ ~is_unlocked /\ unlock_wallet(Password)
    \/ lock_wallet
    \/ auto_scan.loops < MaxLoops /\ start_auto_scan
    \/ stop_auto_scan
    \/ \E net \in {NetOK, NetDown} : _auto_scanner(net)
    \/ _auto_scanner_exits
    \/ \E q \in MempoolAnswers : _mempool_monitor(q)
    \/ _mempool_monitor_exits

\* a thread that is not blocked gets to its next loop test
SpecStop ==
    /\ Init
    /\ [][NextStop]_vars
    /\ WF_vars(_auto_scanner_exits)
    /\ WF_vars(_mempool_monitor_exits)

(* initialize_wallet: create_wallet, then save_wallet(password).             *)

\* the address create_wallet derives from the key it draws
CreatedAddress == "LUN_n"

\* saved: SecureDataManager.save_encrypted_wallet wrote the file
initialize_wallet(password, saved) ==
    IF password = NoPassword
    THEN /\ last' = Outcome("initialize_wallet", FALSE, {"on_error"},
                            "Password cannot be empty")
         /\ UNCHANGED <<variant, auto_scan, locking, mempool_watcher_alive, now, chain,
                        mempool, is_unlocked, wallets, pending_txs, wallet_password,
                        scan_state, last_full_scan, watched_tx_hashes,
                        mempool_monitoring, wallet_file, pending_file,
                        scan_state_file, send>>
    ELSE LET \* create_wallet: the wallet is appended, its checkpoint written
             created == Append(wallets, NewWallet(CreatedAddress))
             fresh == CreatedAddress \notin DOMAIN scan_state.wallets
             ss == IF fresh
                   THEN [scan_state EXCEPT
                            !.wallets = (CreatedAddress :> Checkpoint(0, "none")) @@ @]
                   ELSE scan_state
             sv == save_wallet(is_unlocked, created, pending_txs, password,
                               wallet_file, pending_file)
             ok == sv.ok /\ saved
         IN  /\ scan_state' = ss
             /\ scan_state_file' = (IF fresh THEN ss ELSE scan_state_file)
             /\ wallets' = (IF ok THEN created ELSE <<>>)
             /\ is_unlocked' = (ok \/ is_unlocked)
             /\ wallet_file' = (IF ok THEN sv.wallet_file ELSE wallet_file)
             /\ pending_file' = (IF ok THEN sv.pending_file ELSE pending_file)
             /\ send' = (IF ok THEN send ELSE Detach(send))
             /\ last' = Outcome("initialize_wallet", ok,
                                IF ok THEN {} ELSE {"on_error"},
                                IF ok THEN "" ELSE "Failed to save encrypted wallet")
             /\ UNCHANGED <<variant, auto_scan, locking, mempool_watcher_alive, now,
                            chain, mempool, pending_txs, wallet_password,
                            last_full_scan, watched_tx_hashes, mempool_monitoring>>

(* The library on a machine with or without a wallet file, beside           *)
(* initialize_wallet, unlock_wallet and lock_wallet.                        *)
NextInitialize ==
    \/ \E t \in FundingTxs : RemoteSubmit(t)
    \/ \E miner \in Miners, txs \in Orderings(mempool) :
           Len(chain) < ShortChain /\ RemoteMine(miner, txs)
    \/ \E password \in Passwords : unlock_wallet(password)
    \/ lock_wallet
    \/ \E password \in {Password, NoPassword}, saved \in BOOLEAN :
           Len(wallets) <= 1 /\ initialize_wallet(password, saved)

SpecInitialize == InitUnlock /\ [][NextInitialize]_vars

TypeOK ==
    /\ variant \in {"desktop", "web"}
    /\ is_unlocked \in BOOLEAN
    /\ mempool_watcher_alive \in BOOLEAN
    /\ locking \in {"idle", "wallets", "pending_txs", "stop_mempool_monitoring"}
    /\ send.pc \in {"idle", "broadcast", "response"}

-----------------------------------------------------------------------------
(* Properties of the scan engine *)

RecordHashes(transactions) == { transactions[i].hash : i \in DOMAIN transactions }

(* C1: after any sequence of scans, no wallet's transaction list holds two  *)
(* records with the same hash.                                              *)
C1_NoDuplicateRecords ==
    \A k \in DOMAIN wallets :
        \A i, j \in DOMAIN wallets[k].transactions :
            i # j => wallets[k].transactions[i].hash # wallets[k].transactions[j].hash

\* what one scan of the whole ledger records for an address, starting from nothing
LedgerRecords(address) ==
    IF variant = "web"
    THEN web_process_blocks([transactions |-> <<>>, known |-> {}], address, chain, 1).transactions
    ELSE _process_blocks([transactions |-> <<>>, known |-> {}], address, chain, 1).transactions

BalanceOf(wallet) ==
    IF variant = "web"
    THEN _calculate_balance_from_transactions(wallet.transactions, wallet.address)
    ELSE _update_wallet_balance(wallet.transactions, wallet.address, 1)

\* the wallet is as a scan of the present ledger leaves it: every record of
\* the ledger once, and the balance of those records
ScannedOnce(wallet) ==
    /\ RecordHashes(wallet.transactions) = RecordHashes(LedgerRecords(wallet.address))
    /\ Len(wallet.transactions) = Cardinality(RecordHashes(wallet.transactions))
    /\ wallet.balance = BalanceOf(wallet)

(* C2: a scan of a ledger whose records the wallet already holds leaves the *)
(* wallet's balance and transaction list as they were.                      *)
C2_RescanIdempotent ==
    [][ \A k \in DOMAIN wallets :
          ( /\ ScannedOnce(wallets[k])
            /\ last'.op = "scan_blockchain"
            /\ k \in DOMAIN wallets' )
          => /\ wallets'[k].transactions = wallets[k].transactions
             /\ wallets'[k].balance = wallets[k].balance ]_vars

PersistedHeight(file, address) == file.wallets[address].last_scanned_height

(* C3: the persisted last_scanned_height of an address never decreases, and *)
(* a successful scan leaves it at most the height of the remote chain.      *)
C3_CheckpointMonotonic ==
    [][ \A a \in DOMAIN scan_state_file.wallets \cap DOMAIN scan_state_file'.wallets :
          /\ PersistedHeight(scan_state_file', a) >= PersistedHeight(scan_state_file, a)
          /\ (last'.op = "scan_blockchain" /\ last'.result)
                => PersistedHeight(scan_state_file', a) <= Len(chain) ]_vars

-----------------------------------------------------------------------------
(* Properties of sending and of the pending list *)

SendStart == \E to_address \in SendTo, amount \in SendAmounts :
                 send_transaction_start(to_address, amount, NetOK)
SendBroadcast == \E answer \in BroadcastAnswers : send_transaction_broadcast(answer)
\* the step in which a 201 answer is handled
SendSucceeds == send_transaction_response /\ send.status = 201
SendStep == SendStart \/ SendBroadcast \/ send_transaction_response

PendingSendOf(ws, address) ==
    IF \E k \in DOMAIN ws : ws[k].address = address
    THEN ws[CHOOSE k \in DOMAIN ws : ws[k].address = address].pending_send
    ELSE 0

(* C4: when the broadcast is answered 201, one pending entry with the new   *)
(* hash is appended, the sending wallet's pending_send grows by the amount, *)
(* the hash is watched, wallet and pending list are on disk,                *)
(* on_balance_changed has fired and the send returns success.               *)
C4_SuccessEffects ==
    [][ SendSucceeds =>
          /\ pending_txs' = Append(pending_txs,
                                   PendingEntry(send.hash, OurAddress, send.to,
                                                send.amount, send.current_time))
          /\ wallets' # <<>>
          /\ wallets'[1].pending_send = SendWallet.pending_send + send.amount
          /\ send.hash \in watched_tx_hashes'
          /\ wallet_file'.wallets = wallets'
          /\ pending_file' = pending_txs'
          /\ "on_balance_changed" \in last'.fired
          /\ last'.op = "send_transaction" /\ last'.result ]_vars

\* entry i leaves the pending status in this step
Settles(i) ==
    /\ i \in DOMAIN pending_txs /\ i \in DOMAIN pending_txs'
    /\ pending_txs[i].status = "pending"
    /\ pending_txs'[i].status \in {"confirmed", "failed"}

(* C5: a step that flips one pending entry to confirmed or to failed lowers *)
(* the sender's pending_send by that entry's amount, floored at 0.          *)
C5_SettleReleases ==
    [][ \A i \in DOMAIN pending_txs :
          ( /\ Settles(i)
            /\ \A j \in DOMAIN pending_txs : Settles(j) => j = i )
          => PendingSendOf(wallets', pending_txs[i].from)
               = Max(0, PendingSendOf(wallets, pending_txs[i].from)
                        - pending_txs[i].amount) ]_vars

\* the steps that run the reconciliation: a scan, on its own or at the
\* start of a send
ReconcileStep ==
    \/ \E force \in BOOLEAN, net \in {NetOK, NetDown} : scan_blockchain_call(force, net)
    \/ SendStart

(* C6: a reconciliation run in which no entry leaves the pending status     *)
(* lowers no wallet's pending_send: entries already confirmed or failed     *)
(* release nothing more.                                                    *)
C6_NoDoubleRelease ==
    [][ ( /\ ReconcileStep
          /\ \A i \in DOMAIN pending_txs : ~Settles(i)
          /\ DOMAIN wallets' = DOMAIN wallets )
        => \A k \in DOMAIN wallets :
              wallets'[k].pending_send >= wallets[k].pending_send ]_vars

(* C7: a step of a send other than the handling of a 201 answer appends no  *)
(* pending entry, raises no wallet's pending_send and watches no new hash.  *)
C7_Witness ==
    /\ last = Outcome("send_transaction", FALSE, {"on_error"}, "Network error")
    /\ wallets # <<>> /\ wallets[1].balance > 0
    /\ pending_txs = <<>> /\ wallets[1].pending_send = 0

C7_FailureLeavesNoTrace ==
    [][ (SendStep /\ ~SendSucceeds) =>
          /\ Len(pending_txs') = Len(pending_txs)
          /\ \A k \in DOMAIN wallets' :
                 wallets'[k].pending_send <= PendingSendOf(wallets, wallets'[k].address)
          /\ watched_tx_hashes' = watched_tx_hashes
          /\ (send'.pc = "idle" => last'.op = "send_transaction" /\ ~last'.result) ]_vars

(* C8: a send whose amount plus the fee exceeds balance - pending_send, as  *)
(* the scan at its start leaves them, fails with the insufficient-balance   *)
(* error and broadcasts nothing; 10.0 with nothing pending does not cover   *)
(* 10.00001.                                                                *)
C8_Witness ==
    /\ last.op = "send_transaction" /\ last.error = "Insufficient balance"
    /\ wallets # <<>>
    /\ wallets[1].balance >= 2 + 1
    /\ wallets[1].balance - wallets[1].pending_send < 2 + 1
    /\ OurRemoteTxs = { t \in OurRemoteTxs : t.hash \in KnownHashes(pending_txs) }

C8_InsufficientBalance ==
    [][ \A to_address \in SendTo, amount \in SendAmounts :
          ( /\ send_transaction_start(to_address, amount, NetOK)
            /\ is_unlocked /\ wallets # <<>>
            /\ wallets'[1].balance - wallets'[1].pending_send < amount + 1 )
          => /\ last' = Outcome("send_transaction", FALSE, last'.fired,
                                 "Insufficient balance")
             /\ "on_error" \in last'.fired
             /\ send'.pc = "idle"
             /\ mempool' = mempool
             /\ InsufficientBalance(1000000, 0, 1000001) ]_vars

\* pending_txs holds a pending entry with this sender, recipient and amount
\* that is less than 300 seconds old
HoldsYoungTwin(ptxs, from, to_address, amount) ==
    \E k \in DOMAIN ptxs :
        /\ ptxs[k].status = "pending"
        /\ ptxs[k].from = from /\ ptxs[k].to = to_address /\ ptxs[k].amount = amount
        /\ now - ptxs[k].timestamp < 300

\* a send entered while the pending list, as the scan at its start leaves
\* it, holds such an entry is rejected: nothing is broadcast, appended,
\* reserved or watched
GuardRejects ==
    \A to_address \in SendTo, amount \in SendAmounts :
        ( /\ send_transaction_start(to_address, amount, NetOK)
          /\ is_unlocked /\ wallets # <<>>
          /\ HoldsYoungTwin(pending_txs', wallets[1].address, to_address, amount) )
        => /\ send'.pc = "idle"
           /\ last'.op = "send_transaction" /\ ~last'.result
           /\ "on_error" \in last'.fired
           /\ mempool' = mempool
           /\ Len(pending_txs') = Len(pending_txs)
           /\ wallets'[1].pending_send <= wallets[1].pending_send
           /\ watched_tx_hashes' = watched_tx_hashes

\* two transfers of ours with one sender, recipient and amount, built less
\* than 300 seconds apart, have both been broadcast to the remote node
TwinsBroadcast ==
    \E t1, t2 \in OurRemoteTxs :
        /\ t1 # t2
        /\ t1.from = t2.from /\ t1.to = t2.to /\ t1.amount = t2.amount
        /\ t1.timestamp - t2.timestamp < 300
        /\ t2.timestamp - t1.timestamp < 300

(* C9 as stated: the duplicate guard rejects, and so two sends with the     *)
(* same sender, recipient and amount within the window are never both       *)
(* broadcast.                                                               *)
C9_NoTwinBroadcast ==
    [][ GuardRejects /\ ~TwinsBroadcast' ]_vars

(* C9, amended: the duplicate guard rejects a send entered while the        *)
(* pending list holds a pending entry with the same sender, recipient and   *)
(* amount less than 300 seconds old; a send whose broadcast was not         *)
(* answered 201 leaves no such entry, and a like send may follow it.        *)
C9_Witness ==
    /\ last.op = "send_transaction" /\ last.error = "Duplicate transaction detected"
    /\ wallets # <<>>
    /\ \E to_address \in SendTo, amount \in SendAmounts :
           HoldsYoungTwin(pending_txs, wallets[1].address, to_address, amount)
    /\ Cardinality(OurRemoteTxs) = 1

C9_GuardRejects ==
    [][ GuardRejects ]_vars

(* C10: right after a successful send the sending wallet's                  *)
(* balance - pending_send is not negative.                                  *)
C10_SpendableNotNegative ==
    [][ (SendSucceeds /\ ~send.detached /\ wallets' # <<>>)
          => wallets'[1].balance - wallets'[1].pending_send >= 0 ]_vars

-----------------------------------------------------------------------------
(* Properties of argument checking *)

\* a send of a non-positive amount is under way or is being entered
NonPositiveSend ==
    \/ \E to_address \in SendTo, amount \in AnyAmounts :
           amount <= 0 /\ send_transaction_start(to_address, amount, NetOK)
    \/ send.amount <= 0 /\ send.pc # "idle"
          /\ (SendBroadcast \/ send_transaction_response)

(* C11: a send of a zero or negative amount returns failure at once: it     *)
(* broadcasts nothing, appends no pending entry and changes no wallet's     *)
(* pending_send.                                                            *)
C11_NonPositiveAmountFails ==
    [][ (NonPositiveSend /\ is_unlocked /\ wallets # <<>>) =>
          /\ send'.pc = "idle"
          /\ last'.op = "send_transaction" /\ ~last'.result
          /\ mempool' = mempool
          /\ Len(pending_txs') = Len(pending_txs)
          /\ \A k \in DOMAIN wallets' :
                 wallets'[k].pending_send = PendingSendOf(wallets, wallets'[k].address)
      ]_vars

-----------------------------------------------------------------------------
(* Properties of the mempool monitor *)

\* the entries of a mempool answer the monitor has not watched yet and whose
\* sender is an owned address
UnwatchedOutgoing(q) ==
    { i \in DOMAIN q : /\ q[i].hash # ""
                       /\ q[i].hash \notin watched_tx_hashes
                       /\ Lower(q[i].from) \in OurAddresses(wallets) }

RECURSIVE AmountFrom(_, _, _)
\* the amounts of the entries I of q sent from address, added up
AmountFrom(q, I, address) ==
    IF I = {} THEN 0
    ELSE LET i == CHOOSE j \in I : TRUE
         IN  (IF Lower(q[i].from) = Lower(address) THEN q[i].amount ELSE 0)
                 + AmountFrom(q, I \ {i}, address)

PendingWithHash(ptxs, hash) == { k \in DOMAIN ptxs : ptxs[k].hash = hash }

(* C12: one call of _process_mempool_transactions, for every entry of the   *)
(* mempool whose hash is not watched and whose sender is an owned address   *)
(* without regard to case, watches the hash, leaves exactly one pending     *)
(* entry with that hash, of status pending, and raises the sending wallet's *)
(* pending_send by exactly the entry's amount.                              *)
C12_Witness ==
    /\ last.op = "_mempool_monitor" /\ last.result
    /\ "p1" \in watched_tx_hashes
    /\ \E k \in DOMAIN pending_txs :
           pending_txs[k] = PendingEntry("p1", "lun_a", "y", 3, now)
    /\ wallets # <<>> /\ wallets[1].pending_send = 3

C12_MempoolReserves ==
    [][ \A q \in MempoolAnswers :
          _mempool_monitor(q) =>
             /\ \A i \in UnwatchedOutgoing(q) :
                    /\ q[i].hash \in watched_tx_hashes'
                    /\ Cardinality(PendingWithHash(pending_txs', q[i].hash)) = 1
                    /\ \A k \in PendingWithHash(pending_txs', q[i].hash) :
                           pending_txs'[k].status = "pending"
             /\ \A k \in DOMAIN wallets :
                    wallets'[k].pending_send
                        = wallets[k].pending_send
                            + AmountFrom(q, UnwatchedOutgoing(q), wallets[k].address)
      ]_vars

-----------------------------------------------------------------------------
(* Properties of the reconciliation *)

\* a step in which _update_pending_transactions runs: a scan of the unlocked
\* library, on its own or at the start of a send, that fetched the recent
\* blocks
Reconciles ==
    /\ is_unlocked
    /\ \/ \E force \in BOOLEAN : scan_blockchain_call(force, NetOK)
       \/ SendStart

RecentHashes == BlockchainHashes(web_get_recent_blocks(recent_block_count, TRUE, TRUE))

\* entry i is pending, more than an hour old and in none of the recent blocks
TimedOut(i) ==
    /\ pending_txs[i].status = "pending"
    /\ now - pending_txs[i].timestamp > 3600
    /\ pending_txs[i].hash \notin RecentHashes

\* entry i is pending, less than an hour old and in none of the recent blocks
YoungUnconfirmed(i) ==
    /\ pending_txs[i].status = "pending"
    /\ now - pending_txs[i].timestamp < 3600
    /\ pending_txs[i].hash \notin RecentHashes

RECURSIVE TimedOutAmount(_, _)
\* the amounts of the timed-out entries among I sent from address, added up
TimedOutAmount(I, address) ==
    IF I = {} THEN 0
    ELSE LET i == CHOOSE j \in I : TRUE
         IN  (IF TimedOut(i) /\ pending_txs[i].from = address
              THEN pending_txs[i].amount ELSE 0)
                 + TimedOutAmount(I \ {i}, address)

(* C13: a reconciliation marks failed every pending entry more than an hour *)
(* old whose hash is in none of the recent blocks and releases its amount   *)
(* from the sender's pending_send; a pending entry younger than that with   *)
(* no confirmation stays pending and its reservation stays: pending_send    *)
(* drops by the timed-out amounts and by nothing else.                      *)
C13_TimeoutReleases ==
    [][ Reconciles =>
          /\ \A i \in DOMAIN pending_txs :
                 /\ TimedOut(i) => pending_txs'[i].status = "failed"
                 /\ YoungUnconfirmed(i) => pending_txs'[i].status = "pending"
          /\ \A k \in DOMAIN wallets :
                 wallets'[k].pending_send
                     = Max(0, wallets[k].pending_send
                              - TimedOutAmount(DOMAIN pending_txs, wallets[k].address))
      ]_vars

-----------------------------------------------------------------------------
(* Properties of the balance *)

\* a scan that went through the wallets has just returned
ScanProcessed ==
    /\ is_unlocked /\ wallets # <<>>
    /\ \E force \in BOOLEAN, net \in ScanOutcomes : scan_blockchain_call(force, net)
    /\ last'.result
    /\ "on_sync_complete" \in last'.fired

(* C14: after a scan has processed a wallet, its balance is the replay of   *)
(* its confirmed records: rewards to the address add, transfers from it     *)
(* take amount + fee, transfers to it add the amount, records that are not  *)
(* confirmed count for nothing, and the sum is floored at 0.                *)
C14_BalanceIsReplay ==
    [][ ScanProcessed =>
          \A k \in DOMAIN wallets' :
             wallets'[k].balance
                 = _calculate_balance_from_transactions(wallets'[k].transactions,
                                                        wallets'[k].address) ]_vars

(* C15: in every reachable state every wallet's balance and every wallet's  *)
(* pending_send are at least 0.                                             *)
C15_NeverNegative ==
    \A k \in DOMAIN wallets :
        wallets[k].balance >= 0 /\ wallets[k].pending_send >= 0

-----------------------------------------------------------------------------
(* Properties of the reward records *)

\* block pays its reward to address
MinedBy(block, address) ==
    /\ block.miner # "" /\ Lower(block.miner) = Lower(address)
    /\ block.reward > 0

\* the record the claim describes for a block mined by address
RewardRecord(block, address) ==
    [type |-> "reward", from |-> "network", to |-> address, amount |-> block.reward,
     fee |-> 0, block_height |-> block.index,
     hash |-> reward_hash(block.index, block.miner), status |-> "confirmed"]

\* the reward records one block adds to a wallet that holds nothing yet
RewardsOfBlock(block, address) ==
    LET acc == IF variant = "web"
               THEN web_process_block_for_wallet([transactions |-> <<>>, known |-> {}],
                                                 address, block)
               ELSE _process_block_for_wallet([transactions |-> <<>>, known |-> {}],
                                              address, block)
    IN  { acc.transactions[i] : i \in { j \in DOMAIN acc.transactions :
                                           acc.transactions[j].type = "reward" } }

RewardIndices(wallet) ==
    { i \in DOMAIN wallet.transactions : wallet.transactions[i].type = "reward" }

(* C16: scanning a block mined by the wallet's address (without regard to   *)
(* case) with a positive reward records the reward reward_{H}_{M} from      *)
(* "network" to the address, confirmed; a block of another miner or without *)
(* reward gives none; and however often the chain is scanned the wallet     *)
(* holds at most one reward record per block and miner.                     *)
C16_RewardOnce ==
    [][ (\E force \in BOOLEAN, net \in ScanOutcomes : scan_blockchain_call(force, net)) =>
          \A k \in DOMAIN wallets' :
             /\ \A b \in DOMAIN chain :
                    RewardsOfBlock(chain[b], wallets'[k].address)
                        = IF MinedBy(chain[b], wallets'[k].address)
                          THEN {RewardRecord(chain[b], wallets'[k].address)}
                          ELSE {}
             /\ \A i \in RewardIndices(wallets'[k]) :
                    \E b \in DOMAIN chain :
                        /\ MinedBy(chain[b], wallets'[k].address)
                        /\ wallets'[k].transactions[i]
                              = RewardRecord(chain[b], wallets'[k].address)
             /\ \A i, j \in RewardIndices(wallets'[k]) :
                    wallets'[k].transactions[i].hash = wallets'[k].transactions[j].hash
                        => i = j ]_vars

-----------------------------------------------------------------------------
(* Properties of the scan's error handling *)

\* the height lookup fails while a count of the remote's blocks would succeed
HeightLookupFails == [NetOK EXCEPT !.heightOK = FALSE]

(* C17: when the height lookup of a scan fails and a manual count of the    *)
(* blocks succeeds with h > 0, the scan goes on with h as the height: it    *)
(* leaves what a scan whose lookup answered h leaves, and does not stop     *)
(* early.                                                                   *)
C17_FallbackHeight ==
    [][ \A force \in BOOLEAN :
          ( /\ is_unlocked /\ wallets # <<>>
            /\ _get_manual_block_count(TRUE) > 0
            /\ scan_blockchain_call(force, HeightLookupFails) )
          => /\ scan_blockchain_call(force, NetOK)
             /\ last'.result
             /\ "on_sync_complete" \in last'.fired ]_vars

\* a call of scan_blockchain ends in this step, by returning or by raising
ScanEnds ==
    \/ \E force \in BOOLEAN, net \in ScanOutcomes : scan_blockchain_call(force, net)
    \/ \E force \in BOOLEAN : scan_blockchain_raises(force)

(* C18: whatever the remote answers (failed requests, partial or malformed  *)
(* block data), a call of scan_blockchain returns TRUE or FALSE to its      *)
(* caller: no exception leaves it.                                          *)
C18_ScanNeverRaises ==
    [][ ScanEnds => last'.result \in BOOLEAN /\ last'.error = "" ]_vars

-----------------------------------------------------------------------------
(* Properties of unlocking *)

(* C19: unlock_wallet with a wrong password, or where there is no wallet    *)
(* file, returns failure and changes nothing: is_unlocked, the wallets, the *)
(* pending list and the stored password stay, and no mempool monitor is     *)
(* started.                                                                 *)
C19_Witness ==
    /\ last = Outcome("unlock_wallet", FALSE, {}, "")
    /\ is_unlocked /\ wallets # <<>> /\ wallets[1].balance > 0
    /\ wallet_password = Password

C19_FailedUnlockChangesNothing ==
    [][ \A password \in Passwords :
          ( /\ unlock_wallet(password)
            /\ wallet_file = NoFile \/ wallet_file.password # password )
          => /\ last'.op = "unlock_wallet" /\ ~last'.result
             /\ UNCHANGED <<is_unlocked, wallets, pending_txs, wallet_password,
                            mempool_monitoring, scan_state, watched_tx_hashes,
                            wallet_file, pending_file, scan_state_file>> ]_vars

-----------------------------------------------------------------------------
(* Properties of the send's precondition *)

(* C20: send_transaction called while the wallet is locked, or while the    *)
(* wallet list is empty, returns failure at once: no scan has run, nothing  *)
(* was asked of the remote node, and no state has changed.                  *)
C20_Witness ==
    /\ last = Outcome("send_transaction", FALSE, {}, "")
    /\ ~is_unlocked
    /\ "abc" \in ChainHashes
    /\ wallet_file.wallets[1].transactions = <<>>

C20_LockedSendFailsAtOnce ==
    [][ \A to_address \in SendTo, amount \in SendAmounts :
          ( /\ send_transaction_start(to_address, amount, NetOK)
            /\ ~is_unlocked \/ wallets = <<>> )
          => /\ last' = Outcome("send_transaction", FALSE, {}, "")
             /\ UNCHANGED <<variant, auto_scan, locking, mempool_watcher_alive, now, chain, mempool, is_unlocked, wallets,
                            pending_txs, wallet_password, scan_state, last_full_scan,
                            watched_tx_hashes, mempool_monitoring, wallet_file,
                            pending_file, scan_state_file, send>> ]_vars

-----------------------------------------------------------------------------
(* Properties of the background loops *)

\* a cycle of the monitor that polled and got nothing, or raised
FailedCycle == _mempool_monitor(<<>>) \/ _mempool_monitor_raises

LoopTest == mempool_monitoring /\ is_unlocked

C21_Witness ==
    /\ last.error = "Mempool monitor error"
    /\ mempool_watcher_alive
    /\ LoopTest

(* C21: a failed poll or an exception inside a cycle never ends the mempool *)
(* monitor: after such a cycle the thread is still in its loop and the loop *)
(* test still holds, so another cycle follows; the thread leaves the loop   *)
(* only when the loop test is false, and the loop test becomes false only   *)
(* by lock_wallet (which clears is_unlocked and calls                       *)
(* stop_mempool_monitoring).                                                *)
C21_MonitorSurvivesFailure ==
    [][ /\ FailedCycle => mempool_watcher_alive' /\ LoopTest' /\ wallets' # <<>>
        /\ mempool_watcher_alive /\ ~mempool_watcher_alive' => ~LoopTest
        /\ LoopTest /\ ~LoopTest' => lock_wallet ]_vars

(* C22: lock_wallet sets the stop signal of the background loops before it  *)
(* discards the wallets: at the statement that clears self.wallets the stop *)
(* flag of the mempool monitor is already set (mempool_monitoring is        *)
(* false).                                                                  *)
C22_StopBeforeClear ==
    [][ lock_wallet_wallets => ~mempool_monitoring ]_vars

-----------------------------------------------------------------------------
(* Properties of the address comparisons *)

\* the entries a step settles (pending before, confirmed or failed after)
\* whose sender is the wallet, compared without regard to case
SettledFrom(address) ==
    { i \in DOMAIN pending_txs :
        /\ pending_txs[i].status = "pending"
        /\ i \in DOMAIN pending_txs'
        /\ pending_txs'[i].status # "pending"
        /\ Lower(pending_txs[i].from) = Lower(address) }

RECURSIVE PendingAmount(_, _)
PendingAmount(ptxs, I) ==
    IF I = {} THEN 0
    ELSE LET i == CHOOSE j \in I : TRUE
         IN  ptxs[i].amount + PendingAmount(ptxs, I \ {i})

(* C23: address comparisons are case-insensitive, the one of reconciliation *)
(* included: when _update_pending_transactions settles pending entries      *)
(* whose from equals a wallet's address up to case (such as the entries the *)
(* mempool monitor records, lower-cased), that wallet's pending_send is     *)
(* released by their amounts.                                               *)
C23_ReleaseIgnoresCase ==
    [][ _update_pending_transactions =>
          \A k \in DOMAIN wallets :
              wallets'[k].pending_send
                  <= Max(0, wallets[k].pending_send
                              - PendingAmount(pending_txs, SettledFrom(wallets[k].address)))
      ]_vars

-----------------------------------------------------------------------------
(* Properties of the pending list *)

\* the entries with status pending sent from the address
PendingFrom(address) ==
    { i \in DOMAIN pending_txs :
        /\ pending_txs[i].status = "pending"
        /\ Lower(pending_txs[i].from) = Lower(address) }

(* C24: while the library is unlocked, each wallet's pending_send is the    *)
(* sum of the amounts of the entries of pending_txs with status pending     *)
(* whose from is the wallet (floored at 0).                                 *)
C24_PendingSendIsSum ==
    is_unlocked =>
        \A k \in DOMAIN wallets :
            wallets[k].pending_send
                = Max(0, PendingAmount(pending_txs, PendingFrom(wallets[k].address)))

\* the hash of the one transfer the model sends
SentHash == tx_hash(OurAddress, "y", 2, Epoch0)

C25_Witness ==
    /\ last.op = "_mempool_monitor" /\ ~last.result
    /\ mempool # {}
    /\ \A t \in mempool : t.hash \in watched_tx_hashes
    /\ \E t \in mempool : t.hash = SentHash
    /\ Cardinality(PendingWithHash(pending_txs, SentHash)) = 1
    /\ wallets # <<>> /\ wallets[1].pending_send = 2

(* C25: once a hash is in watched_tx_hashes, put there by a monitor cycle   *)
(* or by a successful send_transaction, a later monitor cycle that sees the *)
(* hash in the mempool reserves nothing for it: the entries of pending_txs  *)
(* stay as they are, an entry is appended only for a hash that was not      *)
(* watched, and a cycle that sees watched hashes only changes neither       *)
(* pending_txs nor any wallet.                                              *)
C25_WatchedNotReservedAgain ==
    [][ \A q \in MempoolAnswers :
          _mempool_monitor(q) =>
             /\ \A k \in DOMAIN pending_txs :
                    k \in DOMAIN pending_txs' /\ pending_txs'[k] = pending_txs[k]
             /\ \A k \in DOMAIN pending_txs' \ DOMAIN pending_txs :
                    pending_txs'[k].hash \notin watched_tx_hashes
             /\ (\A i \in DOMAIN q : q[i].hash \in watched_tx_hashes)
                    => UNCHANGED <<pending_txs, wallets>>
      ]_vars

(* C26: the status of a pending entry only moves from pending to confirmed  *)
(* or from pending to failed: an entry that is confirmed or failed keeps    *)
(* its status in every later step.                                          *)
C26_SettledIsTerminal ==
    [][ \A i \in DOMAIN pending_txs :
            (i \in DOMAIN pending_txs' /\ pending_txs'[i].hash = pending_txs[i].hash
                 /\ pending_txs[i].status # "pending")
                => pending_txs'[i].status = pending_txs[i].status
      ]_vars

-----------------------------------------------------------------------------
(* Properties of the scanned range *)

\* last_scanned_height of an address in a scan state, 0 where it has none
ScannedHeight(ss, address) ==
    IF address \in DOMAIN ss.wallets THEN ss.wallets[address].last_scanned_height ELSE 0

\* the height after the checkpoint, 0 for an address never scanned
NextHeight(ss, address) ==
    IF ScannedHeight(ss, address) = 0 THEN 0 ELSE ScannedHeight(ss, address) + 1

(* C27: one invocation scans at most max_blocks_per_scan heights for a      *)
(* wallet: the range ends at min(currentHeight, startHeight +               *)
(* max_blocks_per_scan - 1), so the checkpoint a scan leaves is never past  *)
(* max_blocks_per_scan - 1 heights beyond the height after the old          *)
(* checkpoint (a full scan starts lower, at 0).                             *)
C27_ScanCapped ==
    [][ \A address \in DOMAIN scan_state'.wallets :
            \/ ScannedHeight(scan_state', address) = ScannedHeight(scan_state, address)
            \/ ScannedHeight(scan_state', address)
                   <= NextHeight(scan_state, address) + max_blocks_per_scan - 1
      ]_vars

\* a scan of the unlocked library that is not forced and runs before the
\* full-scan interval has elapsed
IncrementalScan ==
    /\ is_unlocked
    /\ now - last_full_scan <= full_scan_interval
    /\ \E net \in ScanOutcomes : scan_blockchain_call(FALSE, net)

(* C28: an incremental scan of an address with a checkpoint starts at       *)
(* last_scanned_height + 1 and requests no block at or below the            *)
(* checkpoint: every record it appends to the wallet comes from a block     *)
(* above the old last_scanned_height.                                       *)
C28_IncrementalStartsAfterCheckpoint ==
    [][ IncrementalScan =>
          \A k \in DOMAIN wallets :
              ScannedHeight(scan_state, wallets[k].address) > 0 =>
                  \A j \in DOMAIN wallets'[k].transactions :
                      j > Len(wallets[k].transactions) =>
                          wallets'[k].transactions[j].block_height
                              > ScannedHeight(scan_state, wallets[k].address)
      ]_vars

(* C29: within a wallet the confirmed records stand in non-decreasing       *)
(* block_height order after any sequence of scans.                          *)
C29_RecordsAscending ==
    \A k \in DOMAIN wallets :
        \A i, j \in DOMAIN wallets[k].transactions :
            i < j => wallets[k].transactions[i].block_height
                         <= wallets[k].transactions[j].block_height

-----------------------------------------------------------------------------
(* Properties of the scan of malformed data *)

\* the heights a scan of the first wallet covers when its requests succeed
ScannedHeights(force_full_scan) ==
    IF variant = "web"
    THEN web_scan_range(wallets[1], force_full_scan).start_height
             .. web_scan_range(wallets[1], force_full_scan).end_height
    ELSE 0 .. Len(chain) - 1

\* the hashes of the well-formed transactions at those heights that name
\* the address as sender or receiver
RelevantHashes(heights, address) ==
    UNION { { chain[h + 1].transactions[t].hash :
                t \in { u \in DOMAIN chain[h + 1].transactions :
                          \/ Lower(chain[h + 1].transactions[u].from) = Lower(address)
                          \/ Lower(chain[h + 1].transactions[u].to) = Lower(address) } } :
            h \in { g \in heights : g + 1 \in DOMAIN chain } }

(* C30: a malformed block met during a scan is skipped and the rest of the  *)
(* batch is still processed: after a scan whose requests all succeeded,     *)
(* every well-formed transaction of the scanned heights that involves the   *)
(* wallet is among the wallet's records.                                    *)
C30_MalformedSkipped ==
    [][ \A force \in BOOLEAN :
          (/\ is_unlocked /\ wallets # <<>>
           /\ scan_blockchain_call(force, NetOK) \/ scan_blockchain_raises(force))
              => RelevantHashes(ScannedHeights(force), wallets[1].address)
                     \subseteq RecordHashes(wallets'[1].transactions)
      ]_vars

-----------------------------------------------------------------------------
(* Properties of concurrent threads *)

(* C31: a scan in flight when lock_wallet clears the wallets treats them    *)
(* as done with nothing to persist: the rest of the scan, run after the     *)
(* lock, writes neither the wallet file nor a scan checkpoint.              *)
C31_LockedScanPersistsNothing ==
    [][ web_scan_finish /\ ~is_unlocked
            => UNCHANGED <<wallet_file, scan_state, scan_state_file>> ]_vars

(* C32: mutations of a wallet record by concurrent threads exclude each     *)
(* other, so two concurrent scans never both append the same transaction:   *)
(* the rest of a scan in flight appends to the wallet's list no record      *)
(* whose hash the list already holds (put there by the other scan).         *)
C32_ScansAppendOnce ==
    [][ web_scan_finish /\ is_unlocked /\ wallets # <<>> =>
          \A j \in DOMAIN wallets'[1].transactions :
              j > Len(wallets[1].transactions) =>
                  wallets'[1].transactions[j].hash
                      \notin RecordHashes(wallets[1].transactions)
      ]_vars

-----------------------------------------------------------------------------
(* Progress *)

SomePending == \E i \in DOMAIN pending_txs : pending_txs[i].status = "pending"

AllResolved ==
    /\ \A i \in DOMAIN pending_txs : pending_txs[i].status # "pending"
    /\ \A k \in DOMAIN wallets : wallets[k].pending_send = 0

\* the auto-scan loop comes round for ever, its scans succeeding: again and
\* again the last call is a successful scan, at each value of scan_count
ScansKeepRunning ==
    \A c \in 0 .. full_scan_every - 1 :
        []<>(/\ auto_scan.scan_count = c
             /\ last.op = "scan_blockchain" /\ last.result)

(* C33: while the wallet stays unlocked and the scan loop keeps running     *)
(* with the remote reachable, every pending entry is eventually confirmed   *)
(* or failed and its reservation is eventually released from pending_send.  *)
C33_PendingResolved == ScansKeepRunning => (SomePending ~> AllResolved)

\* the wallet is unlocked and its checkpoint is at the remote height
CaughtUp ==
    /\ is_unlocked
    /\ ScannedHeight(scan_state, OurAddress) = Len(chain) - 1

(* C34: blocks left over by the cap are picked up later: with a fixed       *)
(* remote height and a reachable remote, the scans of the auto-scan loop,   *)
(* its forced and time-based full scans included, eventually bring the      *)
(* wallet's last_scanned_height to the remote height.                       *)
C34_ScanCatchesUp == ScansKeepRunning => <>CaughtUp

\* an auto-scan loop is running and self.scanning is cleared
ScannerStopped == auto_scan.loops > 0 /\ ~auto_scan.scanning

\* the monitor thread is running and its loop test is false
MonitorStopped == mempool_watcher_alive /\ ~(mempool_monitoring /\ is_unlocked)

\* after a scan by the loop, a stop and the loop's last test: no loop is left
C35_Witness ==
    /\ auto_scan.loops = 0
    /\ ~auto_scan.scanning
    /\ auto_scan.scan_count # 0
    /\ last.op = "scan_blockchain"

(* C35: both loops stop on their flag.  An iteration of _auto_scanner (the  *)
(* only caller of scan_blockchain here, seen in scan_count) is taken only   *)
(* with self.scanning set, one of _mempool_monitor only with                *)
(* mempool_monitoring set on the unlocked library; a loop ends only with    *)
(* its test false; and once the test is false, with no later start, the     *)
(* loop ends.                                                               *)
C35_LoopsStopOnFlag ==
    /\ [][ /\ auto_scan'.scan_count # auto_scan.scan_count => auto_scan.scanning
           /\ (\E q \in MempoolAnswers : _mempool_monitor(q))
                  => mempool_monitoring /\ is_unlocked
           /\ auto_scan'.loops < auto_scan.loops => ~auto_scan.scanning
           /\ mempool_watcher_alive /\ ~mempool_watcher_alive'
                  => ~(mempool_monitoring /\ is_unlocked) ]_vars
    /\ ScannerStopped ~> (auto_scan.loops = 0 \/ auto_scan.scanning)
    /\ MonitorStopped ~> (~mempool_watcher_alive \/ (mempool_monitoring /\ is_unlocked))

(* C36: at most one auto-scan loop runs at any time, also when               *)
(* stop_auto_scan is followed by start_auto_scan before the old loop has    *)
(* tested its flag.                                                         *)
C36_OneLoopEach == auto_scan.loops <= 1

-----------------------------------------------------------------------------
(* Properties of the checkpoint, of lock_wallet and of initialize_wallet *)

\* the hashes of the reward records the blocks at the heights owe the address
RewardHashes(heights, address) ==
    { reward_hash(chain[h + 1].index, chain[h + 1].miner) :
        h \in { g \in heights : /\ g + 1 \in DOMAIN chain
                                /\ chain[g + 1].reward > 0
                                /\ chain[g + 1].miner # ""
                                /\ Lower(chain[g + 1].miner) = Lower(address) } }

(* C37: checkpoint completeness.  Whenever the persisted last_scanned_height *)
(* of an address is h, every transaction and every reward in the blocks     *)
(* 0..h of the remote ledger that touches the address is among the records  *)
(* of the wallet, also when fetches failed during the scans that advanced   *)
(* the checkpoint.                                                          *)
C37_CheckpointComplete ==
    is_unlocked =>
        \A k \in DOMAIN wallets :
            wallets[k].address \in DOMAIN scan_state_file.wallets =>
                (RelevantHashes(0 .. ScannedHeight(scan_state_file, wallets[k].address),
                                wallets[k].address)
                    \cup RewardHashes(0 .. ScannedHeight(scan_state_file, wallets[k].address),
                                      wallets[k].address))
                  \subseteq RecordHashes(wallets[k].transactions)

(* C38: from the return of lock_wallet until the next successful unlock the *)
(* library holds no wallet state and no credentials: while is_unlocked is   *)
(* false the wallet list and the pending list are empty and the stored      *)
(* wallet password is cleared.                                              *)
C38_LockedHoldsNothing ==
    ~is_unlocked =>
        /\ wallets = <<>>
        /\ pending_txs = <<>>
        /\ wallet_password = NoPassword

\* the instance as constructed where no wallet was ever made: locked, empty
FreshInstance == ~is_unlocked /\ wallets = <<>> /\ wallet_file = NoFile

(* C39: initialize_wallet gives a definitive outcome without partial state. *)
(* Called with a non-empty password on a fresh instance, the file being     *)
(* writable, it succeeds and leaves exactly one wallet, persisted, with     *)
(* is_unlocked true; and whenever it returns failure the wallet list and    *)
(* the persisted scan checkpoints are what they were before the call.       *)
C39_InitializeDefinitive ==
    [][ \A password \in {Password, NoPassword}, saved \in BOOLEAN :
          initialize_wallet(password, saved) =>
             /\ (FreshInstance /\ password # NoPassword /\ saved) =>
                    /\ last'.result
                    /\ is_unlocked'
                    /\ Len(wallets') = 1
                    /\ wallet_file'.wallets = wallets'
             /\ ~last'.result =>
                    /\ wallets' = wallets
                    /\ scan_state_file' = scan_state_file
      ]_vars

====
